---- MODULE Spec2Model ----
(***************************************************************************)
(* Model of the caps2fun orchestration scripts.                            *)
(*                                                                         *)
(*   examples/naca3/runF2F.py          one forward/adjoint analysis driven *)
(*                                     from funtofem/funtofem.in           *)
(*   examples/nacaMulti/optimization.py  the same analysis called by an    *)
(*                                     optimizer through objCon / objGrad  *)
(*                                                                         *)
(* Every MPI rank runs the same script.  A rank's position in the script   *)
(* is pc[r]; one action is one method call (or one blocking half of a      *)
(* collective).  External tools (pyCAPS AIMs, FUNtoFEM, TACS, FUN3D) are   *)
(* opaque: their results are drawn from the oracle operators below and     *)
(* any of their calls may raise.                                           *)
(*                                                                         *)
(* Numbers: a real quantity q is held as the integer 1000*q, so that the   *)
(* thickness 0.01 is 10 and the factors 0.5, 1.5 and 0.1 stay exact on the *)
(* multiples of 10 the model uses.  A complex number is <<re, im>>.        *)
(***************************************************************************)
EXTENDS Integers, Sequences, FiniteSets, TLC

\* ------------------------------------------------------------------ bounds
NRanks == 2        \* MPI ranks 0..NRanks-1
MaxLines == 4      \* lines of funtofem/funtofem.in
MaxNodes == 2      \* surface-mesh nodes the coupled model reports
MaxCalls == 3      \* objCon/objGrad calls the optimizer makes
NDesigns == 2      \* design points the optimizer may evaluate
NShapeDV == 2      \* shape variables the optimization script declares

Ranks == 0 .. (NRanks - 1)
Root == 0

\* a rank check that lets every rank through
EveryRank(r) == TRUE

IsRoot(r) == r = Root

\* ------------------------------------------------------------ small helpers
Range(s) == { s[i] : i \in DOMAIN s }

Zeros(n) == [i \in 1 .. n |-> 0]
ZeroMatrix(rows, cols) == [i \in 1 .. rows |-> Zeros(cols)]

Re(z) == z[1]

EmptyDict == [k \in {} |-> 0]

\* ------------------------------------------------- funtofem.in, as characters
\* A line of the input file is a sequence of tokens: a word, "," or the
\* newline NL.  str.split(",") and float() work on these tokens.
NL == "\n"

RECURSIVE SplitAcc(_, _, _)
SplitAcc(line, cur, acc) ==
    IF line = <<>> THEN Append(acc, cur)
    ELSE IF Head(line) = "," THEN SplitAcc(Tail(line), <<>>, Append(acc, cur))
    ELSE SplitAcc(Tail(line), Append(cur, Head(line)), acc)

\* line.split(","): the fields between the commas (the last keeps its NL)
Split(line) == SplitAcc(line, <<>>, <<>>)

RECURSIVE Join(_)
Join(field) == IF field = <<>> THEN "" ELSE Head(field) \o Join(Tail(field))

NumTokens == <<"10", "20", "30", "40", "50", "60", "70", "80">>

Strip(field) == SelectSeq(field, LAMBDA t : t # NL)

IsNumber(field) == Len(Strip(field)) = 1 /\ Strip(field)[1] \in Range(NumTokens)

\* float(s): surrounding whitespace is ignored; the caller checks IsNumber
Float(field) ==
    10 * (CHOOSE n \in DOMAIN NumTokens : NumTokens[n] = Strip(field)[1])

CapsGroups == <<"rib", "spar", "OML">>

GroupOfLine(i) == CapsGroups[((i - 1) % Len(CapsGroups)) + 1]

DvName(i) == "dv" \o ToString(i)

NumTok(i) == NumTokens[((i - 1) % Len(NumTokens)) + 1]

BlankLine == <<NL>>
ShapeLine(i) == <<DvName(i), ",", "shape", ",", NumTok(i), NL>>
StructLine(i) == <<DvName(i), ",", "struct", ",", GroupOfLine(i), ",", NumTok(i), NL>>
OtherLine(i) == <<DvName(i), ",", "aero", ",", NumTok(i), NL>>

LineChoices(i) == {BlankLine, ShapeLine(i), StructLine(i), OtherLine(i)}

InputFiles ==
    { f \in [1 .. MaxLines -> UNION { LineChoices(i) : i \in 1 .. MaxLines }] :
        \A i \in 1 .. MaxLines : f[i] \in LineChoices(i) }

\* ---------------------------------------------------------------- readInput
\* a record built without its capsGroup entry
TempDictNoGroup(name, dvType, capsGroup, value) ==
    [name |-> name, type |-> dvType, value |-> value]

\* tempDict of readInput, and the records the optimization script builds
TempDict(name, dvType, capsGroup, value) ==
    [name |-> name, type |-> dvType, capsGroup |-> capsGroup, value |-> value]

\* len(line): the number of characters of the line
CharLen(line) == Len(Join(line))

Unbound == [bound |-> FALSE, capsGroup |-> "", value |-> 0]

\* The loop of readInput.  capsGroup and value are locals of the method: a
\* line whose type is neither "shape" nor "struct" assigns neither, so the
\* record takes what an earlier line left (NameError when nothing did).
RECURSIVE ReadLines(_, _, _)
ReadLines(lines, dv, loc) ==
    IF lines = <<>> THEN [raised |-> FALSE, exception |-> "", DVdict |-> dv]
    ELSE LET line == Head(lines) IN
      IF ~(CharLen(line) > 1) THEN ReadLines(Tail(lines), dv, loc)
      ELSE LET parts == Split(line) IN
        IF Len(parts) < 2
          THEN [raised |-> TRUE, exception |-> "IndexError", DVdict |-> dv]
        ELSE LET name == Join(parts[1])
                 dvType == Join(parts[2])
                 badShape == Len(parts) < 3 \/ ~IsNumber(parts[3])
                 badStruct == Len(parts) < 4 \/ ~IsNumber(parts[4])
                 now == IF dvType = "shape" /\ ~badShape
                          THEN [bound |-> TRUE, capsGroup |-> "",
                                value |-> Float(parts[3])]
                        ELSE IF dvType = "struct" /\ ~badStruct
                          THEN [bound |-> TRUE, capsGroup |-> Join(parts[3]),
                                value |-> Float(parts[4])]
                        ELSE loc
             IN IF \/ dvType = "shape" /\ badShape
                   \/ dvType = "struct" /\ badStruct
                  THEN [raised |-> TRUE, exception |-> "ValueError", DVdict |-> dv]
                ELSE IF dvType \notin {"shape", "struct"} /\ ~loc.bound
                  THEN [raised |-> TRUE, exception |-> "NameError", DVdict |-> dv]
                  ELSE ReadLines(Tail(lines),
                         Append(dv, TempDict(name, dvType, now.capsGroup, now.value)),
                         now)

ParseInput(lines) == ReadLines(lines, <<>>, Unbound)

\* ----------------------------------- the optimization script's DVdict setup
OptShapeNames ==
    <<"area", "aspect", "camb0", "cambf", "ctwist",
      "dihedral", "lesweep", "taper", "tc0", "tcf">>
OptThickNames == <<"thick1", "thick2", "thick3">>

\* 1000 * 0.1, the value every thickness record starts with
OptThickInit == 100

\* The script declares ten shape variables; the model keeps the first
\* NShapeDV of them, and all three thickness variables.
ScriptDVdict ==
    [j \in 1 .. NShapeDV |-> TempDict(OptShapeNames[j], "shape", "", 0)]
    \o [i \in 1 .. Len(OptThickNames) |->
          TempDict(OptThickNames[i], "thick", CapsGroups[i], OptThickInit)]

\* --------------------------------------------------- thickness dictionaries
makeThicknessDV(capsGroup, thickness) ==
    [groupName |-> capsGroup,
     initialValue |-> thickness,
     lowerBound |-> (thickness * 5) \div 10,
     upperBound |-> (thickness * 15) \div 10,
     maxDelta |-> (thickness * 1) \div 10]

makeThicknessDVR(DVname) ==
    [variableType |-> "Property",
     fieldName |-> "T",
     constantCoeff |-> 0,
     groupName |-> DVname,
     linearCoeff |-> 1000]

\* Shell property of structureMeshSettings (the two default ratios are
\* never touched again and are left out)
Shell(t) == [propertyType |-> "Shell", membraneThickness |-> t,
             material |-> "madeupium"]

InitialProperty == [g \in {"rib", "spar", "OML"} |->
                      IF g = "rib" THEN Shell(20)
                      ELSE IF g = "spar" THEN Shell(50) ELSE Shell(10)]

\* thickness = 0.01 of structureMeshSettings
DefaultThickness == 10

\* "struct" in runF2F.py, "thick" in optimization.py
ThickType(scr) == IF scr = "runF2F" THEN "struct" ELSE "thick"

\* dict[key] = val
Put(dict, key, val) == (key :> val) @@ dict

\* the Design_Variable dictionary structureMeshSettings hands to tacsAim
RECURSIVE StructDesignVariables(_, _, _)
StructDesignVariables(dvs, thick, acc) ==
    IF dvs = <<>> THEN acc
    ELSE LET DV == Head(dvs) IN
      StructDesignVariables(Tail(dvs), thick,
        IF DV.type = thick
          THEN Put(acc, DV.name, makeThicknessDV(DV.capsGroup, DefaultThickness))
        ELSE IF DV.type = "shape" THEN Put(acc, DV.name, EmptyDict)
        ELSE acc)

\* the Design_Variable_Relation dictionary of structureMeshSettings
RECURSIVE StructDesignRelations(_, _, _)
StructDesignRelations(dvs, thick, acc) ==
    IF dvs = <<>> THEN acc
    ELSE LET DV == Head(dvs) IN
      StructDesignRelations(Tail(dvs), thick,
        IF DV.type = thick THEN Put(acc, DV.name, makeThicknessDVR(DV.name))
        ELSE acc)

\* a dictionary with an empty entry for every record, whatever its type
RECURSIVE EveryDesignVariable(_, _)
EveryDesignVariable(dvs, acc) ==
    IF dvs = <<>> THEN acc
    ELSE EveryDesignVariable(Tail(dvs), Put(acc, Head(dvs).name, EmptyDict))

\* the Design_Variable dictionary fun3dSettings hands to fun3dAim
RECURSIVE FluidDesignVariables(_, _)
FluidDesignVariables(dvs, acc) ==
    IF dvs = <<>> THEN acc
    ELSE LET DV == Head(dvs) IN
      FluidDesignVariables(Tail(dvs),
        IF DV.type = "shape" THEN Put(acc, DV.name, EmptyDict) ELSE acc)

\* The CAPS session initializeAIMs creates on the root: two problems, their
\* AIMs and the three settings methods.  gen counts the sessions created.
NoCaps == [gen |-> 0, Design_Variable |-> EmptyDict,
           Design_Variable_Relation |-> EmptyDict, Property |-> EmptyDict,
           structDespmtr |-> EmptyDict, fluidDespmtr |-> EmptyDict,
           fun3dDesign_Variable |-> EmptyDict,
           tacsDynout |-> EmptyDict, fun3dDynout |-> EmptyDict]

NewCaps(old, dvs, thick) ==
    [gen |-> old.gen + 1,
     Design_Variable |-> StructDesignVariables(dvs, thick, EmptyDict),
     Design_Variable_Relation |-> StructDesignRelations(dvs, thick, EmptyDict),
     Property |-> InitialProperty,
     structDespmtr |-> EmptyDict,
     fluidDespmtr |-> EmptyDict,
     fun3dDesign_Variable |-> FluidDesignVariables(dvs, EmptyDict),
     tacsDynout |-> EmptyDict,
     fun3dDynout |-> EmptyDict]

\* an updateDesign that sets the despmtr values and leaves tacsAim alone
RECURSIVE UpdateDespmtrOnly(_, _, _)
UpdateDespmtrOnly(c, dvs, thick) ==
    IF dvs = <<>> THEN c
    ELSE LET DV == Head(dvs) IN
      UpdateDespmtrOnly(
        IF DV.type = "shape"
          THEN [c EXCEPT !.structDespmtr = Put(@, DV.name, DV.value),
                         !.fluidDespmtr = Put(@, DV.name, DV.value)]
          ELSE c,
        Tail(dvs), thick)

\* the loop of updateDesign over the AIM dictionaries (root only)
RECURSIVE UpdateCaps(_, _, _)
UpdateCaps(c, dvs, thick) ==
    IF dvs = <<>> THEN c
    ELSE LET DV == Head(dvs) IN
      UpdateCaps(
        IF DV.type = "shape"
          THEN [c EXCEPT !.structDespmtr = Put(@, DV.name, DV.value),
                         !.fluidDespmtr = Put(@, DV.name, DV.value)]
        ELSE IF DV.type = thick
          THEN LET capsGroup == c.Design_Variable[DV.name].groupName IN
               [c EXCEPT
                  !.Design_Variable_Relation = Put(@, DV.name, makeThicknessDVR(DV.name)),
                  !.Design_Variable = Put(@, DV.name, makeThicknessDV(capsGroup, DV.value)),
                  !.Property = Put(@, capsGroup,
                                   [@[capsGroup] EXCEPT !.membraneThickness = DV.value])]
        ELSE c,
        Tail(dvs), thick)

\* ------------------------------------------------------ the external tools
\* Results of the opaque tools: values that differ for every run, function
\* and index, so that a mixed-up index shows.  run is the number of coupled
\* models built so far on the rank.
FunctionNames == <<"ksfailure">>

NFunc == Len(FunctionNames)

\* model.get_functions(): one Function per name, value complex
SolvedFunctions(run) == [k \in 1 .. NFunc |-> <<1000 + 100 * run + k, 7>>]

\* model.get_function_gradients(): per function, one complex derivative per
\* structural variable of the model
ModelGradients(run, nvars) ==
    [f \in 1 .. NFunc |-> [k \in 1 .. nvars |-> <<2000 + 100 * run + 10 * f + k, 9>>]]

\* wing.collect_coordinate_derivatives(comm, discipline) on the root: node
\* ids and a (3*nnodes) x nfunc array of complex sensitivities
StructNodeIds(n) == [c \in 1 .. n |-> c - 1]
AeroNodeIds(n) == [c \in 1 .. n |-> 3 * c + 2]
MeshSens(base, n) ==
    [row \in 1 .. 3 * n |-> [f \in 1 .. NFunc |-> <<base + 10 * row + f, 3>>]]

\* aim.dynout["func#f"].deriv(dvname) after postAnalysis, for the design
\* variables the AIM knows: dynout[funcKey][dvname]
FuncKey(funcInd) == "func#" \o ToString(funcInd)

PositionOf(names, n) == CHOOSE i \in DOMAIN names : names[i] = n

Dynout(base, run, dvnames) ==
    [key \in {FuncKey(f) : f \in 0 .. NFunc - 1} |->
       [n \in Range(dvnames) |->
          base + 100 * run + 10 * PositionOf(dvnames, n)
          + (CHOOSE f \in 0 .. NFunc - 1 : FuncKey(f) = key)]]

\* ------------------------------------------------------------------- state
VARIABLES
    script,      \* which script the ranks run: "runF2F" or "optimization"
    inFile,      \* funtofem/funtofem.in: a sequence of lines
    pc,          \* pc[r]: the call rank r is about to make
    trace,       \* trace[r]: the pipeline steps rank r has started, in order
    fault,       \* fault[r]: the exception that ended rank r, and where
    DVdict,      \* DVdict[r]: self.DVdict of rank r
    bcastQ,      \* bcastQ[r]: broadcasts of the root that r has not received
    collectives, \* collectives[r]: Barrier/Split calls rank r has entered
    gathers,     \* gathers[r]: gathers to the root rank r has entered
    caps,        \* the root's pyCAPS problems and AIM inputs
    toolLog,     \* <<rank, operation>> of every geometry/mesh tool operation
    f2f,         \* f2f[r]: self.model / self.wing / self.driver of rank r
    functions,   \* functions[r]: self.functions
    structGrad,  \* structGrad[r]: the structural gradient array
    shapeGrad,   \* shapeGrad[r]: self.shapeGrad
    mesh,        \* the root's aeroIds, aero_mesh_sens, structIds, struct_mesh_sens
    sensFile,    \* the two .sens files and what postAnalysis found in them
    outFile,     \* funtofem/funtofem.out
    calls,       \* the objCon/objGrad calls the optimizer has made so far
    callIdx,     \* callIdx[r]: how many of them rank r has started
    inCall,      \* inCall[r]: the call rank r is in: its function and its x
    iteration,   \* iteration[r]: self.iteration
    ret,         \* ret[r]: what the last objCon/objGrad of rank r returned
    cwd,         \* cwd[r]: the current working directory of rank r
    iterationPath, \* iterationPath[r]: self.iterationPath
    curDir,      \* curDir[r]: self.curDir
    dvRef,       \* dvRef[r][i]: the dictionary object DVdict[r][i] refers to
    inputOpens,  \* the ranks that have opened funtofem/funtofem.in
    flowDir,     \* steady/Flow: the mesh files copied there, and from where
    shapeVar,    \* a ShapeVariable object of design_variable.py, if any
    thickVar,    \* a ThicknessVariable object of design_variable.py, if any
    shellAccess  \* what the last access of thickVar.shell_property gave

optCtl == <<calls, callIdx, inCall, iteration, ret>>
dirs == <<cwd, iterationPath, curDir>>
files == <<inputOpens, flowDir>>
designVars == <<shapeVar, thickVar, shellAccess>>

vars == <<script, inFile, pc, trace, fault, DVdict, bcastQ, collectives, gathers,
          caps, toolLog, f2f, functions, structGrad, shapeGrad, mesh,
          sensFile, outFile, calls, callIdx, inCall, iteration, ret, cwd,
          iterationPath, curDir, dvRef, inputOpens, flowDir, shapeVar, thickVar,
          shellAccess>>

NoFault == [step |-> "", exception |-> ""]
NoModel == [gen |-> 0, built |-> FALSE, variables |-> <<>>]
NoGrad == [set |-> FALSE, m |-> <<>>]
NoMesh == [aeroIds |-> <<>>, aero_mesh_sens |-> <<>>,
           structIds |-> <<>>, struct_mesh_sens |-> <<>>]
NoFile == [open |-> FALSE, lines |-> <<>>, posted |-> FALSE,
           seenOpen |-> FALSE, seen |-> <<>>]

\* Design points the optimizer may hand to objCon: x["struct"] has one entry
\* per thickness variable, x["shape"] one per shape variable.
DesignPoint(k) ==
    [struct |-> [i \in 1 .. Len(OptThickNames) |-> 100 * k + 10 * i],
     shape |-> [j \in 1 .. NShapeDV |-> 100 * k + 10 * j + 50]]

DesignPoints == {DesignPoint(k) : k \in 1 .. NDesigns}

NoCall == [fn |-> "", x |-> [struct |-> <<>>, shape |-> <<>>]]
NoReturn == [fn |-> "", fail |-> FALSE]

\* the scripts construct no object of design_variable.py
NoObject == <<>>

\* shell_property has not been accessed
NoAccess == [raised |-> FALSE, exception |-> "", property |-> <<>>]

\* what __init__ sets besides self.DVdict, and the world around it
Constructed ==
    /\ dvRef = [r \in Ranks |-> [i \in DOMAIN DVdict[r] |-> i]]
    /\ calls = <<>>
    /\ callIdx = [r \in Ranks |-> 0]
    /\ inCall = [r \in Ranks |-> NoCall]
    /\ iteration = [r \in Ranks |-> 1]
    /\ ret = [r \in Ranks |-> NoReturn]
    /\ cwd = [r \in Ranks |-> "parentDir"]
    /\ iterationPath = [r \in Ranks |-> ""]
    /\ curDir = [r \in Ranks |-> IF script = "runF2F" THEN "parentDir" ELSE ""]
    /\ trace = [r \in Ranks |-> <<>>]
    /\ fault = [r \in Ranks |-> NoFault]
    /\ bcastQ = [r \in Ranks |-> <<>>]
    /\ collectives = [r \in Ranks |-> 0]
    /\ gathers = [r \in Ranks |-> 0]
    /\ caps = NoCaps
    /\ toolLog = {}
    /\ f2f = [r \in Ranks |-> NoModel]
    /\ functions = [r \in Ranks |-> <<>>]
    /\ structGrad = [r \in Ranks |-> <<>>]
    /\ shapeGrad = [r \in Ranks |-> NoGrad]
    /\ mesh = NoMesh
    /\ sensFile = [a \in {"tacs", "fun3d"} |-> NoFile]
    /\ outFile = <<>>
    /\ inputOpens = {}
    /\ flowDir = {}

\* runF2F.py: the constructor is about to call readInput.
\* optimization.py: the module has built DVdict and the object, and the
\* optimizer is about to make its first call.
Init ==
    /\ \/ /\ script = "runF2F"
          /\ inFile \in InputFiles
          /\ pc = [r \in Ranks |-> "readInput"]
          /\ DVdict = [r \in Ranks |-> <<>>]
       \/ /\ script = "optimization"
          /\ inFile = <<>>
          /\ pc = [r \in Ranks |-> "opt_call"]
          /\ DVdict = [r \in Ranks |-> ScriptDVdict]
    /\ Constructed
    /\ shapeVar = NoObject
    /\ thickVar = NoObject
    /\ shellAccess = NoAccess

\* ------------------------------------------------------------ control flow
\* The call that follows `step` on rank r: __init__, the module-level calls,
\* runF2F, forwardAnalysis, adjointAnalysis and computeShapeDerivatives of
\* runF2F.py.
AfterRunF2F(step, r) ==
    CASE step = "readInput" ->
           IF IsRoot(r) THEN "initializeAIMs" ELSE "updateDesign"
      [] step = "initializeAIMs" -> "updateDesign"
      [] step = "updateDesign" -> "buildStructureMesh"
      [] step = "buildStructureMesh" -> "buildFluidMesh"
      [] step = "buildFluidMesh" ->
           IF IsRoot(r) THEN "pointwise" ELSE "copyFluidMesh"
      [] step = "pointwise" -> "copyFluidMesh"
      [] step = "copyFluidMesh" -> "initF2F"
      [] step = "initF2F" -> "initF2F_model"
      [] step = "initF2F_model" -> "solve_forward"
      [] step = "solve_forward" -> "solve_adjoint"
      [] step = "solve_adjoint" -> "commBarrier_adjoint"
      [] step = "commBarrier_adjoint" -> "commBarrier_adjoint_wait"
      [] step = "commBarrier_adjoint_wait" -> "structGrad"
      [] step = "structGrad" -> "collect_aero"
      [] step = "collect_aero" -> "collect_struct"
      [] step = "collect_struct" ->
           IF IsRoot(r) THEN "computeShapeDerivatives" ELSE "shapeGradNone"
      [] step = "computeShapeDerivatives" -> "applyStructMeshSens"
      [] step = "applyStructMeshSens" -> "tacsAim_postAnalysis"
      [] step = "tacsAim_postAnalysis" -> "applyAeroMeshSens"
      [] step = "applyAeroMeshSens" -> "fun3dAim_postAnalysis"
      [] step = "fun3dAim_postAnalysis" -> "commBarrier_shape"
      [] step = "shapeGradNone" -> "commBarrier_shape"
      [] step = "commBarrier_shape" -> "commBarrier_shape_wait"
      [] step = "commBarrier_shape_wait" -> "bcast_shapeGrad"
      [] step = "bcast_shapeGrad" -> "writeOutput"
      [] step = "writeOutput" -> "writeOutput_write"
      [] step = "writeOutput_write" -> "script_writeOutput"
      [] step = "script_writeOutput" -> "script_writeOutput_write"
      [] step = "script_writeOutput_write" -> "done"

\* The same for optimization.py: objCon and forwardAnalysis, objGrad and
\* adjointAnalysis.  After a return the optimizer makes its next call.
AfterOptimization(step, r) ==
    CASE step = "setupIteration" -> "fwd_barrier"
      [] step = "fwd_barrier" -> "fwd_barrier_wait"
      [] step = "fwd_barrier_wait" -> "bcast_iterationPath"
      [] step = "bcast_iterationPath" ->
           IF IsRoot(r) THEN "initializeAIMs" ELSE "updateDesign"
      [] step = "initializeAIMs" -> "updateDesign"
      [] step = "updateDesign" -> "buildStructureMesh"
      [] step = "buildStructureMesh" -> "buildFluidMesh"
      [] step = "buildFluidMesh" -> "copyFluidMesh"
      [] step = "copyFluidMesh" -> "initF2F"
      [] step = "initF2F" -> "initF2F_model"
      [] step = "initF2F_model" -> "solve_forward"
      [] step = "solve_forward" -> "objCon_return"
      [] step = "objCon_return" -> "opt_call"
      [] step = "solve_adjoint" -> "structGrad"
      [] step = "structGrad" -> "collect_aero"
      [] step = "collect_aero" -> "collect_struct"
      [] step = "collect_struct" ->
           IF IsRoot(r) THEN "computeShapeDerivatives" ELSE "shapeGradNone"
      [] step = "computeShapeDerivatives" -> "applyStructMeshSens"
      [] step = "applyStructMeshSens" -> "tacsAim_postAnalysis"
      [] step = "tacsAim_postAnalysis" -> "applyAeroMeshSens"
      [] step = "applyAeroMeshSens" -> "fun3dAim_postAnalysis"
      [] step = "fun3dAim_postAnalysis" -> "bcast_shapeGrad"
      [] step = "shapeGradNone" -> "bcast_shapeGrad"
      [] step = "bcast_shapeGrad" -> "objGrad_return"
      [] step = "objGrad_return" -> "opt_call"

\* forwardAnalysis with the two mesh builds in the other order
AfterSwapped(step, r) ==
    IF script = "runF2F"
      THEN IF step = "updateDesign" THEN "buildFluidMesh"
           ELSE IF step = "buildFluidMesh" THEN "buildStructureMesh"
           ELSE IF step = "buildStructureMesh" THEN "initF2F"
           ELSE AfterRunF2F(step, r)
      ELSE AfterOptimization(step, r)

After(step, r) ==
    IF script = "runF2F" THEN AfterRunF2F(step, r) ELSE AfterOptimization(step, r)

\* the steps of the pipeline that trace records
PipelineSteps ==
    {"readInput", "initializeAIMs", "updateDesign", "buildStructureMesh",
     "buildFluidMesh", "initF2F", "solve_forward", "solve_adjoint",
     "computeShapeDerivatives", "writeOutput"}

Started(r, step) ==
    [trace EXCEPT ![r] = IF step \in PipelineSteps THEN Append(@, step) ELSE @]

\* the call `step` returns on rank r
Advance(r, step) ==
    /\ pc' = [pc EXCEPT ![r] = After(step, r)]
    /\ trace' = Started(r, step)
    /\ UNCHANGED <<script, inFile, fault, designVars>>

\* an exception that is caught and the call made again
RaiseAndRetry(r, step, exception) ==
    /\ pc' = [pc EXCEPT ![r] = step]
    /\ trace' = Started(r, step)
    /\ fault' = [fault EXCEPT ![r] = [step |-> step, exception |-> exception]]
    /\ UNCHANGED <<script, inFile, designVars>>

\* the call `step` raises on rank r: nothing catches it, the process ends
Raise(r, step, exception) ==
    /\ pc' = [pc EXCEPT ![r] = "raised"]
    /\ trace' = Started(r, step)
    /\ fault' = [fault EXCEPT ![r] = [step |-> step, exception |-> exception]]
    /\ UNCHANGED <<script, inFile, designVars>>

Log(r, ops) == toolLog' = toolLog \cup {<<r, op>> : op \in ops}

At(r, step) == pc[r] = step

\* ------------------------------------------------------------- collectives
\* a broadcast that hands out an empty list whatever the root holds
BroadcastEmpty(kind, val) ==
    bcastQ' = [q \in Ranks |->
                 IF q = Root THEN bcastQ[q]
                 ELSE Append(bcastQ[q], [kind |-> kind, val |-> <<>>])]

\* comm.bcast(obj, root=0): the root hands obj to every other rank
Broadcast(kind, val) ==
    bcastQ' = [q \in Ranks |->
                 IF IsRoot(q) THEN bcastQ[q]
                 ELSE Append(bcastQ[q], [kind |-> kind, val |-> val])]

Receive(r) == bcastQ' = [bcastQ EXCEPT ![r] = Tail(@)]

\* a bcast after which a rank still holds what it passed in
BcastKeepsOwn(own, r) == own

\* what x = comm.bcast(x, root=0) assigns on a rank r other than the root:
\* the root's object, whatever the rank passed in
BcastResult(own, r) == Head(bcastQ[r]).val

\* comm.Barrier / comm.Split: nobody leaves before everybody has entered
Enter(r) == collectives' = [collectives EXCEPT ![r] = @ + 1]
AllEntered(r) == \A q \in Ranks : collectives[q] >= collectives[r]

\* a gather to the root: the root leaves when every rank has entered
AllGathered(r) ==
    IsRoot(r) => \A q \in Ranks \ {r} : gathers[q] >= gathers[r] + 1

\* ---------------------------------------------------- constructor, readInput
ReadInput(r) ==
    /\ At(r, "readInput")
    /\ IF IsRoot(r)
         THEN LET res == ParseInput(inFile) IN
              /\ DVdict' = [DVdict EXCEPT ![r] = res.DVdict]
              /\ inputOpens' = inputOpens \cup {r}
              /\ IF res.raised
                   THEN Raise(r, "readInput", res.exception) /\ UNCHANGED bcastQ
                   ELSE Advance(r, "readInput") /\ Broadcast("DVdict", res.DVdict)
         ELSE /\ bcastQ[r] # <<>>
              /\ DVdict' = [DVdict EXCEPT ![r] = BcastResult(@, r)]
              /\ Receive(r)
              /\ Advance(r, "readInput")
              /\ UNCHANGED inputOpens
    /\ UNCHANGED <<collectives, gathers, caps, toolLog, f2f,
                   functions, structGrad, shapeGrad, mesh, sensFile, outFile,
                   optCtl, dirs, dvRef, flowDir>>

InitializeAIMs(r) ==
    /\ At(r, "initializeAIMs")
    /\ IF IsRoot(r)
         THEN /\ caps' = NewCaps(caps, DVdict[r], ThickType(script))
              /\ Log(r, {"pyCAPS.Problem", "analysis.create", "aim.input"})
         ELSE UNCHANGED <<caps, toolLog>>
    /\ Advance(r, "initializeAIMs")
    /\ UNCHANGED <<DVdict, bcastQ, collectives, gathers, f2f,
                   functions, structGrad, shapeGrad, mesh, sensFile, outFile,
                   optCtl, dirs, dvRef, files>>

\* ---------------------------------------------------------- forwardAnalysis
\* The first loop of updateDesign(x) in optimization.py.  The loop variable
\* is the dictionary object itself: assigning its "value" changes every list
\* slot that refers to the object, and self.DVdict[ct] = DVdict makes slot ct
\* refer to it.  i is the slot visited (from 1), ct counts from 0.  The next
\* pass of the loop works on the list this pass left: d and f are bound to it
\* by a set constructor, so that it is computed once.
RECURSIVE UpdateRecords(_, _, _, _, _, _, _)
UpdateRecords(i, dvs, refs, thickCt, shapeCt, ct, x) ==
    IF i > Len(dvs) THEN [raised |-> FALSE, DVdict |-> dvs, dvRef |-> refs]
    ELSE LET kind == dvs[i].type
             Assign(v) ==
                 LET set == [p \in DOMAIN dvs |->
                               IF refs[p] = refs[i]
                                 THEN [dvs[p] EXCEPT !.value = v] ELSE dvs[p]]
                 IN [DVdict |-> [set EXCEPT ![ct + 1] = set[i]],
                     dvRef |-> [refs EXCEPT ![ct + 1] = refs[i]]]
         IN IF kind = "thick"
              THEN IF (thickCt + 1) \notin DOMAIN x.struct
                     THEN [raised |-> TRUE, DVdict |-> dvs, dvRef |-> refs]
                     ELSE LET a == Assign(x.struct[thickCt + 1]) IN
                          CHOOSE res \in
                            {UpdateRecords(i + 1, d, f, thickCt + 1,
                                           shapeCt, ct + 1, x) :
                               d \in {a.DVdict}, f \in {a.dvRef}} : TRUE
            ELSE IF kind = "shape"
              THEN IF (shapeCt + 1) \notin DOMAIN x.shape
                     THEN [raised |-> TRUE, DVdict |-> dvs, dvRef |-> refs]
                     ELSE LET a == Assign(x.shape[shapeCt + 1]) IN
                          CHOOSE res \in
                            {UpdateRecords(i + 1, d, f, thickCt,
                                           shapeCt + 1, ct + 1, x) :
                               d \in {a.DVdict}, f \in {a.dvRef}} : TRUE
            ELSE UpdateRecords(i + 1, dvs, refs, thickCt, shapeCt, ct, x)

\* an updateDesign that leaves self.DVdict as it was
KeepDVdict(scr, dvs, refs, x) == [raised |-> FALSE, DVdict |-> dvs, dvRef |-> refs]

\* self.DVdict after the first part of updateDesign: runF2F.py has no such
\* part, its values come from funtofem.in
UpdatedDVdict(scr, dvs, refs, x) ==
    IF scr = "optimization" THEN UpdateRecords(1, dvs, refs, 0, 0, 0, x)
    ELSE [raised |-> FALSE, DVdict |-> dvs, dvRef |-> refs]

UpdateDesign(r) ==
    /\ At(r, "updateDesign")
    /\ LET upd == UpdatedDVdict(script, DVdict[r], dvRef[r], inCall[r].x) IN
       /\ DVdict' = [DVdict EXCEPT ![r] = upd.DVdict]
       /\ dvRef' = [dvRef EXCEPT ![r] = upd.dvRef]
       /\ IF upd.raised
            THEN Raise(r, "updateDesign", "IndexError") /\ UNCHANGED <<caps, toolLog>>
            ELSE /\ IF IsRoot(r)
                      THEN /\ caps' = UpdateCaps(caps, upd.DVdict, ThickType(script))
                           /\ Log(r, {"despmtr.value", "aim.input"})
                      ELSE UNCHANGED <<caps, toolLog>>
                 /\ Advance(r, "updateDesign")
    /\ UNCHANGED <<bcastQ, collectives, gathers, f2f,
                   functions, structGrad, shapeGrad, mesh, sensFile, outFile,
                   optCtl, dirs, files>>

\* meshStyle of the constructor call; it is tacsAim's Proj_Name as well
MeshStyle(scr) == IF scr = "runF2F" THEN "pointwise" ELSE "tetgen"

\* shutil.copy(src, dest): the file dest of steady/Flow is now a copy of src
Copy(dir, src, dest) ==
    {f \in dir : f.dest # dest} \cup {[dest |-> dest, src |-> src]}

\* buildStructureMesh: the .bdf and .dat files of tacsAim go to steady/Flow
StructMeshCopies(style, dir) ==
    Copy(Copy(dir, "tacsAim/" \o style \o ".bdf", style \o ".bdf"),
         "tacsAim/" \o style \o ".dat", style \o ".dat")

BuildStructureMesh(r) ==
    /\ At(r, "buildStructureMesh")
    /\ IF IsRoot(r)
         THEN /\ Log(r, {"tacsAim.preAnalysis", "copy mesh"})
              /\ flowDir' = StructMeshCopies(MeshStyle(script), flowDir)
         ELSE UNCHANGED <<toolLog, flowDir>>
    /\ Advance(r, "buildStructureMesh")
    /\ UNCHANGED <<DVdict, bcastQ, collectives, gathers, caps,
                   f2f, functions, structGrad, shapeGrad, mesh, sensFile, outFile,
                   optCtl, dirs, dvRef, inputOpens>>

\* the pointwiseAim.analysisDir of runPointwise
AnalysisDir == "pointwiseAim.analysisDir"

\* buildFluidMesh.  For pointwise the root enters runPointwise: AIM
\* pre-analysis, self.curDir = os.getcwd(), os.chdir(analysisDir); for
\* tetgen it links the mesh and runs fun3dAim.preAnalysis.
BuildFluidMesh(r) ==
    /\ At(r, "buildFluidMesh")
    /\ IF IsRoot(r) /\ MeshStyle(script) = "pointwise"
         THEN /\ Log(r, {"pointwiseAim.preAnalysis"})
              /\ curDir' = [curDir EXCEPT ![r] = cwd[r]]
              /\ cwd' = [cwd EXCEPT ![r] = AnalysisDir]
         ELSE /\ IF IsRoot(r) THEN Log(r, {"link mesh", "fun3dAim.preAnalysis"})
                              ELSE UNCHANGED toolLog
              /\ UNCHANGED <<cwd, curDir>>
    /\ Advance(r, "buildFluidMesh")
    /\ UNCHANGED <<DVdict, bcastQ, collectives, gathers, caps,
                   f2f, functions, structGrad, shapeGrad, mesh, sensFile, outFile,
                   optCtl, iterationPath, dvRef, files>>

\* a runPointwise that stays in the analysis directory
StayThere(saved, now) == now

\* os.chdir(self.curDir) of runPointwise
BackToCurDir(saved, now) == saved

\* The rest of runPointwise (the pointwise run, os.chdir(self.curDir), AIM
\* post-analysis) and buildFluidMesh up to fun3dAim.preAnalysis.
RunPointwise(r) ==
    /\ At(r, "pointwise")
    /\ Log(r, {"pointwise", "pointwiseAim.postAnalysis", "link mesh",
               "fun3dAim.preAnalysis"})
    /\ cwd' = [cwd EXCEPT ![r] = BackToCurDir(curDir[r], @)]
    /\ Advance(r, "pointwise")
    /\ UNCHANGED <<DVdict, bcastQ, collectives, gathers, caps,
                   f2f, functions, structGrad, shapeGrad, mesh, sensFile, outFile,
                   optCtl, iterationPath, curDir, dvRef, files>>

\* An extension is kept as its dotted parts, so that `".lb8" in ext` is a
\* test on them.
UgridExtensions == <<<<".ugrid">>, <<".lb8", ".ugrid">>>>

NoCopy == [bound |-> FALSE, src |-> "", dest |-> ""]

\* The for loop of buildFluidMesh over the extensions: it only assigns
\* srcFile, destFile and src; what it leaves is what the last pass assigned.
RECURSIVE UgridLoop(_, _, _)
UgridLoop(style, exts, loc) ==
    IF exts = <<>> THEN loc
    ELSE LET ext == Head(exts) IN
      UgridLoop(style, Tail(exts),
        IF style = "pointwise"
          THEN [bound |-> TRUE,
                src |-> "pointwiseAim/caps.GeomToMesh" \o Join(ext),
                dest |-> "pointwise" \o Join(ext)]
        ELSE IF style = "tetgen" /\ ".lb8" \in Range(ext)
          THEN [bound |-> TRUE,
                src |-> "fun3dAim/Flow/fun3d_CAPS" \o Join(ext),
                dest |-> "tetgen" \o Join(ext)]
        ELSE loc)

\* the copies of buildFluidMesh: one after the loop, and the mapbc file
\* for tetgen
FluidMeshCopies(style, dir) ==
    LET loc == UgridLoop(style, UgridExtensions, NoCopy)
        ugrid == Copy(dir, loc.src, loc.dest)
    IN IF style = "tetgen"
         THEN Copy(ugrid, "fun3dAim/Flow/fun3d_CAPS.mapbc", "tetgen.mapbc")
         ELSE ugrid

\* buildFluidMesh after fun3dAim.preAnalysis: the copies into steady/Flow
CopyFluidMesh(r) ==
    /\ At(r, "copyFluidMesh")
    /\ IF IsRoot(r)
         THEN /\ flowDir' = FluidMeshCopies(MeshStyle(script), flowDir)
              /\ Log(r, {"copy mesh"})
         ELSE UNCHANGED <<flowDir, toolLog>>
    /\ Advance(r, "copyFluidMesh")
    /\ UNCHANGED <<DVdict, bcastQ, collectives, gathers, caps,
                   f2f, functions, structGrad, shapeGrad, mesh, sensFile, outFile,
                   optCtl, dirs, dvRef, inputOpens>>

\* clearF2F: the root deletes self.model, self.driver and self.wing
Cleared(model, r) == IF IsRoot(r) THEN [model EXCEPT !.built = FALSE] ELSE model

\* initF2F up to comm.Split, which every rank enters: clearF2F after the
\* first iteration and, in optimization.py, os.chdir(self.parentDir)
InitF2F(r) ==
    /\ At(r, "initF2F")
    /\ f2f' = [f2f EXCEPT ![r] = IF iteration[r] > 1 THEN Cleared(@, r) ELSE @]
    /\ cwd' = [cwd EXCEPT ![r] = IF script = "optimization" THEN "parentDir" ELSE @]
    /\ Enter(r)
    /\ Advance(r, "initF2F")
    /\ UNCHANGED <<DVdict, bcastQ, gathers, caps, toolLog,
                   functions, structGrad, shapeGrad, mesh, sensFile, outFile,
                   optCtl, iterationPath, curDir, dvRef, files>>

\* structDVs of initF2F: the values of the "struct" records in runF2F.py,
\* x["struct"] in optimization.py
StructDVs(scr, dvs, x) ==
    IF scr = "runF2F"
      THEN LET picked == SelectSeq(dvs, LAMBDA DV : DV.type = "struct")
           IN [i \in 1 .. Len(picked) |-> picked[i].value]
      ELSE x.struct

\* the rest of initF2F: a new model, body, scenario, solvers and driver
InitF2FModel(r) ==
    /\ At(r, "initF2F_model")
    /\ AllEntered(r)
    /\ f2f' = [f2f EXCEPT ![r] = [gen |-> @.gen + 1, built |-> TRUE,
                                  variables |->
                                    StructDVs(script, DVdict[r], inCall[r].x)]]
    /\ Advance(r, "initF2F_model")
    /\ UNCHANGED <<DVdict, bcastQ, collectives, gathers, caps,
                   toolLog, functions, structGrad, shapeGrad, mesh, sensFile,
                   outFile,
                   optCtl, dirs, dvRef, files>>

SolveForward(r) ==
    /\ At(r, "solve_forward")
    /\ functions' = [functions EXCEPT ![r] = SolvedFunctions(f2f[r].gen)]
    /\ Advance(r, "solve_forward")
    /\ UNCHANGED <<DVdict, bcastQ, collectives, gathers, caps,
                   toolLog, f2f, structGrad, shapeGrad, mesh, sensFile, outFile,
                   optCtl, dirs, dvRef, files>>

\* ---------------------------------------------------------- adjointAnalysis
SolveAdjoint(r) ==
    /\ At(r, "solve_adjoint")
    /\ Advance(r, "solve_adjoint")
    /\ UNCHANGED <<DVdict, bcastQ, collectives, gathers, caps, toolLog, f2f,
                   functions, structGrad, shapeGrad, mesh, sensFile, outFile,
                   optCtl, dirs, dvRef, files>>

BarrierSteps == {"commBarrier_adjoint", "commBarrier_shape", "fwd_barrier"}
BarrierWaits == {"commBarrier_adjoint_wait", "commBarrier_shape_wait",
                 "fwd_barrier_wait"}

\* commBarrier: the rank enters comm.Barrier()
CommBarrier(r) ==
    /\ pc[r] \in BarrierSteps
    /\ Enter(r)
    /\ Advance(r, pc[r])
    /\ UNCHANGED <<DVdict, bcastQ, gathers, caps, toolLog, f2f, functions,
                   structGrad, shapeGrad, mesh, sensFile, outFile,
                   optCtl, dirs, dvRef, files>>

\* comm.Barrier() returns once every rank has entered it
BarrierPass(r) ==
    /\ pc[r] \in BarrierWaits
    /\ AllEntered(r)
    /\ Advance(r, pc[r])
    /\ UNCHANGED <<DVdict, bcastQ, collectives, gathers, caps, toolLog, f2f,
                   functions, structGrad, shapeGrad, mesh, sensFile, outFile,
                   optCtl, dirs, dvRef, files>>

\* np.zeros((nfunc, 3))
StructGradColumns == 3

\* m[i, j] of a numpy array or list, i and j counted from 0
InBounds(m, i, j) == (i + 1) \in DOMAIN m /\ (j + 1) \in DOMAIN m[i + 1]

\* The inner loop of adjointAnalysis for one function: ct counts the design
\* variables that are not shape variables.
RECURSIVE FillStructRow(_, _, _, _)
FillStructRow(dvs, ct, row, grads) ==
    IF dvs = <<>> THEN [raised |-> FALSE, row |-> row]
    ELSE IF ~(Head(dvs).type = "shape")
      THEN IF (ct + 1) \notin DOMAIN grads \/ (ct + 1) \notin DOMAIN row
             THEN [raised |-> TRUE, row |-> row]
             ELSE FillStructRow(Tail(dvs), ct + 1,
                                [row EXCEPT ![ct + 1] = Re(grads[ct + 1])], grads)
      ELSE FillStructRow(Tail(dvs), ct, row, grads)

\* structGrad of adjointAnalysis
FillStructGrad(dvs, nfunc, f2fgrads) ==
    LET rows == [f \in 1 .. nfunc |->
                   FillStructRow(dvs, 0, Zeros(StructGradColumns), f2fgrads[f])]
    IN [raised |-> \E f \in 1 .. nfunc : rows[f].raised,
        m |-> [f \in 1 .. nfunc |-> rows[f].row]]

StructGradStep(r) ==
    /\ At(r, "structGrad")
    /\ LET res == FillStructGrad(DVdict[r], Len(functions[r]),
                                 ModelGradients(f2f[r].gen, Len(f2f[r].variables)))
       IN IF res.raised
            THEN Raise(r, "structGrad", "IndexError") /\ UNCHANGED <<structGrad, cwd>>
            ELSE /\ structGrad' = [structGrad EXCEPT ![r] = res.m]
                 /\ cwd' = [cwd EXCEPT ![r] =
                              IF script = "optimization" THEN iterationPath[r] ELSE @]
                 /\ Advance(r, "structGrad")
    /\ UNCHANGED <<DVdict, bcastQ, collectives, gathers, caps, toolLog, f2f,
                   functions, shapeGrad, mesh, sensFile, outFile,
                   optCtl, iterationPath, curDir, dvRef, files>>

\* wing.collect_coordinate_derivatives(comm, "aero")
CollectAero(r) ==
    /\ At(r, "collect_aero")
    /\ AllGathered(r)
    /\ gathers' = [gathers EXCEPT ![r] = @ + 1]
    /\ IF IsRoot(r)
         THEN \E n \in 1 .. MaxNodes :
                mesh' = [mesh EXCEPT !.aeroIds = AeroNodeIds(n),
                                     !.aero_mesh_sens = MeshSens(4000, n)]
         ELSE UNCHANGED mesh
    /\ Advance(r, "collect_aero")
    /\ UNCHANGED <<DVdict, bcastQ, collectives, caps, toolLog, f2f, functions,
                   structGrad, shapeGrad, sensFile, outFile,
                   optCtl, dirs, dvRef, files>>

\* wing.collect_coordinate_derivatives(comm, "struct")
CollectStruct(r) ==
    /\ At(r, "collect_struct")
    /\ AllGathered(r)
    /\ gathers' = [gathers EXCEPT ![r] = @ + 1]
    /\ IF IsRoot(r)
         THEN \E n \in 1 .. MaxNodes :
                mesh' = [mesh EXCEPT !.structIds = StructNodeIds(n),
                                     !.struct_mesh_sens = MeshSens(6000, n)]
         ELSE UNCHANGED mesh
    /\ Advance(r, "collect_struct")
    /\ UNCHANGED <<DVdict, bcastQ, collectives, caps, toolLog, f2f, functions,
                   structGrad, shapeGrad, sensFile, outFile,
                   optCtl, dirs, dvRef, files>>

\* the else branch of adjointAnalysis: self.shapeGrad = None
ShapeGradNone(r) ==
    /\ At(r, "shapeGradNone")
    /\ shapeGrad' = [shapeGrad EXCEPT ![r] = NoGrad]
    /\ Advance(r, "shapeGradNone")
    /\ UNCHANGED <<DVdict, bcastQ, collectives, gathers, caps, toolLog, f2f,
                   functions, structGrad, mesh, sensFile, outFile,
                   optCtl, dirs, dvRef, files>>

\* ---------------------------------------------------- computeShapeDerivatives
NShape(dvs) == Len(SelectSeq(dvs, LAMBDA DV : DV.type = "shape"))

\* computeShapeDerivatives up to initShapeGrad
ComputeShapeDerivatives(r) ==
    /\ At(r, "computeShapeDerivatives")
    /\ IF IsRoot(r)
         THEN shapeGrad' = [shapeGrad EXCEPT ![r] =
                [set |-> TRUE,
                 m |-> ZeroMatrix(Len(functions[r]), NShape(DVdict[r]))]]
         ELSE UNCHANGED shapeGrad
    /\ Advance(r, "computeShapeDerivatives")
    /\ UNCHANGED <<DVdict, bcastQ, collectives, gathers, caps, toolLog, f2f,
                   functions, structGrad, mesh, sensFile, outFile,
                   optCtl, dirs, dvRef, files>>

SensLine(tag, key, nums) == [tag |-> tag, key |-> key, nums |-> nums]

\* the node lines of one function: ct counts the nodes from 0
NodeLines(ids, sens, funcInd, shift) ==
    [c \in 1 .. Len(ids) |->
       LET ct == c - 1 IN
       SensLine("node", "",
                <<ids[c] + shift,
                  Re(sens[3 * ct + 1][funcInd + 1]),
                  Re(sens[3 * ct + 2][funcInd + 1]),
                  Re(sens[3 * ct + 3][funcInd + 1])>>)]

\* what the `with open(...)` block of apply*MeshSens writes
RECURSIVE SensBlocks(_, _, _, _, _, _)
SensBlocks(funcInd, nfunc, funcs, ids, sens, shift) ==
    IF funcInd >= nfunc THEN <<>>
    ELSE <<SensLine("key", FuncKey(funcInd), <<>>),
           SensLine("value", "", <<Re(funcs[funcInd + 1])>>),
           SensLine("nnodes", "", <<Len(ids)>>)>>
         \o NodeLines(ids, sens, funcInd, shift)
         \o SensBlocks(funcInd + 1, nfunc, funcs, ids, sens, shift)

SensFileLines(nfunc, funcs, ids, sens, shift) ==
    <<SensLine("nfunc", "", <<nfunc>>)>>
    \o SensBlocks(0, nfunc, funcs, ids, sens, shift)

\* node ids written as they come for both disciplines
NoShift(aim) == 0

\* bdfind = nodeind + 1 for the structure, bdfind = nodeind for the fluid
IdShift(aim) == IF aim = "tacs" THEN 1 ELSE 0

\* the file after the with block: written and closed
Written(lines) == [open |-> FALSE, lines |-> lines, posted |-> FALSE,
                   seenOpen |-> FALSE, seen |-> <<>>]

\* aim.postAnalysis() reads the .sens file as it is on disk
Posted(file) == [file EXCEPT !.posted = TRUE, !.seenOpen = file.open,
                             !.seen = file.lines]

\* the names the AIM has design variables for, in DVdict order
NamesOfTypes(dvs, types) ==
    LET picked == SelectSeq(dvs, LAMBDA DV : DV.type \in types)
    IN [i \in 1 .. Len(picked) |-> picked[i].name]

\* the same loop with = where the code has +=
RECURSIVE AddRowAssign(_, _, _, _)
AddRowAssign(dvs, dvct, row, derivs) ==
    IF dvs = <<>> THEN row
    ELSE IF Head(dvs).type = "shape"
      THEN AddRowAssign(Tail(dvs), dvct + 1,
                        [row EXCEPT ![dvct + 1] = derivs[Head(dvs).name]], derivs)
      ELSE AddRowAssign(Tail(dvs), dvct, row, derivs)

\* The loop over DVdict that adds deriv(dvname) of every shape variable to
\* one row of shapeGrad; dvct counts the shape variables.
RECURSIVE AddRow(_, _, _, _)
AddRow(dvs, dvct, row, derivs) ==
    IF dvs = <<>> THEN row
    ELSE IF Head(dvs).type = "shape"
      THEN AddRow(Tail(dvs), dvct + 1,
                  [row EXCEPT ![dvct + 1] = @ + derivs[Head(dvs).name]], derivs)
      ELSE AddRow(Tail(dvs), dvct, row, derivs)

AddDerivs(m, dvs, dynout) ==
    [f \in 1 .. Len(m) |-> AddRow(dvs, 0, m[f], dynout[FuncKey(f - 1)])]

\* applyStructMeshSens: the with block
ApplyStructMeshSens(r) ==
    /\ At(r, "applyStructMeshSens")
    /\ sensFile' = [sensFile EXCEPT !["tacs"] =
          Written(SensFileLines(Len(functions[r]), functions[r], mesh.structIds,
                                mesh.struct_mesh_sens, IdShift("tacs")))]
    /\ Log(r, {"write struct .sens"})
    /\ Advance(r, "applyStructMeshSens")
    /\ UNCHANGED <<DVdict, bcastQ, collectives, gathers, caps, f2f, functions,
                   structGrad, shapeGrad, mesh, outFile,
                   optCtl, dirs, dvRef, files>>

\* applyStructMeshSens: tacsAim.postAnalysis() and the accumulation
TacsPostAnalysis(r) ==
    /\ At(r, "tacsAim_postAnalysis")
    /\ LET dynout == Dynout(3000, f2f[r].gen,
                            NamesOfTypes(DVdict[r], {"shape", ThickType(script)}))
       IN /\ caps' = [caps EXCEPT !.tacsDynout = dynout]
          /\ shapeGrad' = [shapeGrad EXCEPT ![r].m = AddDerivs(@, DVdict[r], dynout)]
    /\ sensFile' = [sensFile EXCEPT !["tacs"] = Posted(@)]
    /\ Log(r, {"tacsAim.postAnalysis"})
    /\ Advance(r, "tacsAim_postAnalysis")
    /\ UNCHANGED <<DVdict, bcastQ, collectives, gathers, f2f, functions,
                   structGrad, mesh, outFile,
                   optCtl, dirs, dvRef, files>>

\* applyAeroMeshSens: the with block
ApplyAeroMeshSens(r) ==
    /\ At(r, "applyAeroMeshSens")
    /\ sensFile' = [sensFile EXCEPT !["fun3d"] =
          Written(SensFileLines(Len(functions[r]), functions[r], mesh.aeroIds,
                                mesh.aero_mesh_sens, IdShift("fun3d")))]
    /\ Log(r, {"write aero .sens"})
    /\ Advance(r, "applyAeroMeshSens")
    /\ UNCHANGED <<DVdict, bcastQ, collectives, gathers, caps, f2f, functions,
                   structGrad, shapeGrad, mesh, outFile,
                   optCtl, dirs, dvRef, files>>

\* applyAeroMeshSens: fun3dAim.postAnalysis() and the accumulation
Fun3dPostAnalysis(r) ==
    /\ At(r, "fun3dAim_postAnalysis")
    /\ LET dynout == Dynout(5000, f2f[r].gen, NamesOfTypes(DVdict[r], {"shape"}))
       IN /\ caps' = [caps EXCEPT !.fun3dDynout = dynout]
          /\ shapeGrad' = [shapeGrad EXCEPT ![r].m = AddDerivs(@, DVdict[r], dynout)]
    /\ sensFile' = [sensFile EXCEPT !["fun3d"] = Posted(@)]
    /\ Log(r, {"fun3dAim.postAnalysis"})
    /\ Advance(r, "fun3dAim_postAnalysis")
    /\ UNCHANGED <<DVdict, bcastQ, collectives, gathers, f2f, functions,
                   structGrad, mesh, outFile,
                   optCtl, dirs, dvRef, files>>

\* self.shapeGrad = self.comm.bcast(self.shapeGrad, root=0)
BcastShapeGrad(r) ==
    /\ At(r, "bcast_shapeGrad")
    /\ IF IsRoot(r)
         THEN Broadcast("shapeGrad", shapeGrad[r]) /\ UNCHANGED shapeGrad
         ELSE /\ bcastQ[r] # <<>>
              /\ shapeGrad' = [shapeGrad EXCEPT ![r] = BcastResult(@, r)]
              /\ Receive(r)
    /\ cwd' = [cwd EXCEPT ![r] = IF script = "optimization" THEN "parentDir" ELSE @]
    /\ Advance(r, "bcast_shapeGrad")
    /\ UNCHANGED <<DVdict, collectives, gathers, caps, toolLog, f2f, functions,
                   structGrad, mesh, sensFile, outFile,
                   optCtl, iterationPath, curDir, dvRef, files>>

\* ------------------------------------------------------------- writeOutput
OutLine(tag, name, nums, nl) == [tag |-> tag, name |-> name, nums |-> nums, nl |-> nl]

\* m[i, 0], m[i, 1], ... m[i, n-1], read one by one until one is out of range
RECURSIVE ReadRow(_, _, _, _, _)
ReadRow(m, i, j, n, acc) ==
    IF j >= n THEN [raised |-> FALSE, vals |-> acc]
    ELSE IF ~InBounds(m, i, j) THEN [raised |-> TRUE, vals |-> acc]
    ELSE ReadRow(m, i, j + 1, n, Append(acc, m[i + 1][j + 1]))

\* ct when the gradients of the k-th function are read (k from 0): the loop
\* has already done ct += 1
GradRow(k) == k + 1

\* the loop of writeOutput over self.functions
RECURSIVE WriteFunctions(_, _, _)
WriteFunctions(k, lines, o) ==
    IF k >= Len(o.functions) THEN [raised |-> FALSE, lines |-> lines]
    ELSE LET func == OutLine("func", FunctionNames[k + 1],
                             <<Re(o.functions[k + 1])>>, TRUE)
             sh == ReadRow(o.shapeGrad, GradRow(k), 0, o.nshape, <<>>)
             st == ReadRow(o.structGrad, GradRow(k), 0, o.nstruct, <<>>)
         IN IF sh.raised
              THEN [raised |-> TRUE,
                    lines |-> lines \o <<func, OutLine("grad", "shape", sh.vals, FALSE)>>]
            ELSE IF st.raised
              THEN [raised |-> TRUE,
                    lines |-> lines \o <<func, OutLine("grad", "shape", sh.vals, TRUE),
                                         OutLine("grad", "struct", st.vals, FALSE)>>]
            ELSE WriteFunctions(k + 1,
                   lines \o <<func, OutLine("grad", "shape", sh.vals, TRUE),
                              OutLine("grad", "struct", st.vals, TRUE)>>, o)

\* what the root writes to funtofem.out
OutputOf(dvs, funcs, sGrad, tGrad) ==
    LET nshape == NShape(dvs)
        nstruct == Len(SelectSeq(dvs, LAMBDA DV : DV.type = "struct"))
    IN WriteFunctions(0,
         <<OutLine("header", "", <<Len(funcs), nshape, nstruct>>, TRUE)>>,
         [functions |-> funcs, shapeGrad |-> sGrad, structGrad |-> tGrad,
          nshape |-> nshape, nstruct |-> nstruct])

OpenSteps == {"writeOutput", "script_writeOutput"}
WriteSteps == {"writeOutput_write", "script_writeOutput_write"}

\* writeOutput: open(outputFile, "w") creates or empties the file
WriteOutputOpen(r) ==
    /\ pc[r] \in OpenSteps
    /\ outFile' = <<>>
    /\ Advance(r, pc[r])
    /\ UNCHANGED <<DVdict, bcastQ, collectives, gathers, caps, toolLog, f2f,
                   functions, structGrad, shapeGrad, mesh, sensFile,
                   optCtl, dirs, dvRef, files>>

\* writeOutput: the root's writes reach the file when the handle is closed
\* (or when the process ends on the exception); other ranks only close
WriteOutputWrite(r) ==
    /\ pc[r] \in WriteSteps
    /\ IF IsRoot(r)
         THEN LET res == OutputOf(DVdict[r], functions[r], shapeGrad[r].m,
                                  structGrad[r])
              IN /\ outFile' = res.lines
                 /\ IF res.raised THEN Raise(r, pc[r], "IndexError")
                                  ELSE Advance(r, pc[r])
         ELSE UNCHANGED outFile /\ Advance(r, pc[r])
    /\ UNCHANGED <<DVdict, bcastQ, collectives, gathers, caps, toolLog, f2f,
                   functions, structGrad, shapeGrad, mesh, sensFile,
                   optCtl, dirs, dvRef, files>>

\* ------------------------------------------------------- failing tool calls
\* the steps in which rank r calls into pyCAPS, FUNtoFEM, TACS or FUN3D
ExternalCalls(r) ==
    {"initF2F_model", "solve_forward", "solve_adjoint", "collect_aero",
     "collect_struct"}
    \cup (IF IsRoot(r)
            THEN {"initializeAIMs", "updateDesign", "buildStructureMesh",
                  "buildFluidMesh", "pointwise", "tacsAim_postAnalysis",
                  "fun3dAim_postAnalysis"}
            ELSE {})

\* No method of either script has a try block: an exception of a tool call
\* leaves every frame and ends the process.
ToolRaises(r) ==
    /\ pc[r] \in ExternalCalls(r)
    /\ Raise(r, pc[r], "ToolError")
    /\ UNCHANGED <<DVdict, bcastQ, collectives, gathers, caps, toolLog, f2f,
                   functions, structGrad, shapeGrad, mesh, sensFile, outFile,
                   optCtl, dirs, dvRef, files>>

\* ------------------------------------------------ the optimizer's callbacks
\* What the optimizer may call next: objCon at any design point, or objGrad
\* at the point of its last call.
NextCalls(made) ==
    {[fn |-> "objCon", x |-> p] : p \in DesignPoints}
    \cup (IF made # <<>>
            THEN {[fn |-> "objGrad", x |-> made[Len(made)].x]} ELSE {})

FirstStep(fn) == IF fn = "objCon" THEN "setupIteration" ELSE "solve_adjoint"

\* The optimizer runs on every rank with the same data, so every rank makes
\* the same calls: the first rank to get there decides the call.
OptimizerCall(r) ==
    /\ At(r, "opt_call")
    /\ callIdx[r] < MaxCalls
    /\ \E c \in (IF callIdx[r] < Len(calls) THEN {calls[callIdx[r] + 1]}
                  ELSE NextCalls(calls)) :
         /\ calls' = IF callIdx[r] < Len(calls) THEN calls ELSE Append(calls, c)
         /\ inCall' = [inCall EXCEPT ![r] = c]
         /\ pc' = [pc EXCEPT ![r] = FirstStep(c.fn)]
    /\ callIdx' = [callIdx EXCEPT ![r] = @ + 1]
    /\ UNCHANGED <<script, inFile, designVars, trace, fault, DVdict, bcastQ, collectives,
                   gathers, caps, toolLog, f2f, functions, structGrad, shapeGrad,
                   mesh, sensFile, outFile, iteration, ret, dirs, dvRef, files>>

\* the optimizer returns; the script writes the solution to the status file
OptimizerDone(r) ==
    /\ At(r, "opt_call")
    /\ callIdx[r] = MaxCalls
    /\ pc' = [pc EXCEPT ![r] = "done"]
    /\ UNCHANGED <<script, inFile, designVars, trace, fault, DVdict, bcastQ, collectives,
                   gathers, caps, toolLog, f2f, functions, structGrad, shapeGrad,
                   mesh, sensFile, outFile, optCtl, dirs, dvRef, files>>

IterationDir(n) == "iteration" \o ToString(n)

\* forwardAnalysis: setupIteration on the root, iterationPath = None elsewhere
SetupIteration(r) ==
    /\ At(r, "setupIteration")
    /\ IF IsRoot(r)
         THEN /\ iterationPath' = [iterationPath EXCEPT ![r] = IterationDir(iteration[r])]
              /\ cwd' = [cwd EXCEPT ![r] = IterationDir(iteration[r])]
              /\ Log(r, {"copy csm"})
         ELSE /\ iterationPath' = [iterationPath EXCEPT ![r] = ""]
              /\ UNCHANGED <<cwd, toolLog>>
    /\ Advance(r, "setupIteration")
    /\ UNCHANGED <<DVdict, bcastQ, collectives, gathers, caps, f2f, functions,
                   structGrad, shapeGrad, mesh, sensFile, outFile, optCtl, curDir,
                   dvRef, files>>

\* self.iterationPath = self.comm.bcast(self.iterationPath, root=0)
BcastIterationPath(r) ==
    /\ At(r, "bcast_iterationPath")
    /\ IF IsRoot(r)
         THEN Broadcast("iterationPath", iterationPath[r]) /\ UNCHANGED iterationPath
         ELSE /\ bcastQ[r] # <<>>
              /\ iterationPath' = [iterationPath EXCEPT ![r] = BcastResult(@, r)]
              /\ Receive(r)
    /\ Advance(r, "bcast_iterationPath")
    /\ UNCHANGED <<DVdict, collectives, gathers, caps, toolLog, f2f, functions,
                   structGrad, shapeGrad, mesh, sensFile, outFile, optCtl, cwd,
                   curDir, dvRef, files>>

\* objCon after forwardAnalysis has returned
ObjConReturn(r) ==
    /\ At(r, "objCon_return")
    /\ ret' = [ret EXCEPT ![r] = [fn |-> "objCon", fail |-> FALSE]]
    /\ Advance(r, "objCon_return")
    /\ UNCHANGED <<DVdict, bcastQ, collectives, gathers, caps, toolLog, f2f,
                   functions, structGrad, shapeGrad, mesh, sensFile, outFile,
                   calls, callIdx, inCall, iteration, dirs, dvRef, files>>

\* objGrad after adjointAnalysis has returned
ObjGradReturn(r) ==
    /\ At(r, "objGrad_return")
    /\ ret' = [ret EXCEPT ![r] = [fn |-> "objGrad", fail |-> FALSE]]
    /\ iteration' = [iteration EXCEPT ![r] = @ + 1]
    /\ Advance(r, "objGrad_return")
    /\ UNCHANGED <<DVdict, bcastQ, collectives, gathers, caps, toolLog, f2f,
                   functions, structGrad, shapeGrad, mesh, sensFile, outFile,
                   calls, callIdx, inCall, dirs, dvRef, files>>

\* one statement of the script on rank r
Step(r) ==
        \/ OptimizerCall(r)
        \/ OptimizerDone(r)
        \/ SetupIteration(r)
        \/ BcastIterationPath(r)
        \/ ObjConReturn(r)
        \/ ObjGradReturn(r)
        \/ ReadInput(r)
        \/ InitializeAIMs(r)
        \/ UpdateDesign(r)
        \/ BuildStructureMesh(r)
        \/ BuildFluidMesh(r)
        \/ RunPointwise(r)
        \/ CopyFluidMesh(r)
        \/ InitF2F(r)
        \/ InitF2FModel(r)
        \/ SolveForward(r)
        \/ SolveAdjoint(r)
        \/ CommBarrier(r)
        \/ BarrierPass(r)
        \/ StructGradStep(r)
        \/ CollectAero(r)
        \/ CollectStruct(r)
        \/ ShapeGradNone(r)
        \/ ComputeShapeDerivatives(r)
        \/ ApplyStructMeshSens(r)
        \/ TacsPostAnalysis(r)
        \/ ApplyAeroMeshSens(r)
        \/ Fun3dPostAnalysis(r)
        \/ BcastShapeGrad(r)
        \/ WriteOutputOpen(r)
        \/ WriteOutputWrite(r)

Next == \E r \in Ranks : Step(r) \/ ToolRaises(r)

Spec == Init /\ [][Next]_vars

\* Runs in which no call into an external tool raises.  Every rank is an
\* operating-system process of its own that keeps running its script: a
\* statement that stays possible for a rank is executed in the end.
NextNoToolError == \E r \in Ranks : Step(r)

FairSpec ==
    Init /\ [][NextNoToolError]_vars /\ \A r \in Ranks : WF_vars(Step(r))

\* ------------------------------------ capsManager/tacs/design_variable.py
\* ShapeVariable(name, value)
ShapeVariable(name, value) == [name |-> name, value |-> value]

\* ShapeVariable.DV_dictionary
ShapeDV_dictionary(self) == EmptyDict

\* ThicknessVariable(name, caps_group, value, material), bending_boost 1.0
ThicknessVariable(name, caps_group, value, material) ==
    [name |-> name, caps_group |-> caps_group, value |-> value,
     material |-> material, bending_boost |-> 1000]

\* a DV_dictionary with the two bounds the other way round
BoundsSwapped(self) ==
    [groupName |-> self.caps_group,
     initialValue |-> self.value,
     lowerBound |-> (self.value * 15) \div 10,
     upperBound |-> (self.value * 5) \div 10,
     maxDelta |-> (self.value * 1) \div 10]

\* ThicknessVariable.DV_dictionary
DV_dictionary(self) ==
    [groupName |-> self.caps_group,
     initialValue |-> self.value,
     lowerBound |-> (self.value * 5) \div 10,
     upperBound |-> (self.value * 15) \div 10,
     maxDelta |-> (self.value * 1) \div 10]

\* a DVR_dictionary that names the caps group
RelationOfGroup(self) ==
    [variableType |-> "Property",
     fieldName |-> "T",
     constantCoeff |-> 0,
     groupName |-> self.caps_group,
     linearCoeff |-> 1000]

\* ThicknessVariable.DVR_dictionary
DVR_dictionary(self) ==
    [variableType |-> "Property",
     fieldName |-> "T",
     constantCoeff |-> 0,
     groupName |-> self.name,
     linearCoeff |-> 1000]

\* ThicknessVariable.has_material
has_material(self) == self.material # "None"

\* ShellProperty(caps_group=..., material=..., membrane_thickness=...,
\* bending_inertia=...): the object holds its four arguments
ShellProperty(caps_group, material, membrane_thickness, bending_inertia) ==
    [caps_group |-> caps_group, material |-> material,
     membrane_thickness |-> membrane_thickness,
     bending_inertia |-> bending_inertia]

\* a shell_property without its assertion
PropertyUnchecked(self) ==
    [raised |-> FALSE, exception |-> "",
     property |-> ShellProperty(self.caps_group, self.material, self.value,
                                self.bending_boost)]

\* ThicknessVariable.shell_property: the assert statement, then the return
shell_property(self) ==
    IF ~(self.material # "None")
      THEN [raised |-> TRUE, exception |-> "AssertionError", property |-> <<>>]
      ELSE [raised |-> FALSE, exception |-> "",
            property |-> ShellProperty(self.caps_group, self.material,
                                       self.value, self.bending_boost)]

\* Values a variable is given, as 1000 * value: multiples of 0.01, so that
\* the products with 0.5, 1.5 and 0.1 are exact; one negative value and zero.
MaxValue == 3
VariableValues == {10 * k : k \in -1 .. MaxValue}

\* the values the variables are constructed with
ConstructorValues == {10 * k : k \in 1 .. MaxValue - 1}

ShapeVariables ==
    {ShapeVariable(OptShapeNames[j], v) :
       j \in 1 .. NShapeDV, v \in ConstructorValues}

ThicknessVariables ==
    {ThicknessVariable(n, g, v, mat) :
       n \in Range(OptThickNames), g \in Range(CapsGroups),
       v \in ConstructorValues, mat \in {"None", "madeupium"}}

\* A program that uses the module only: it has constructed one variable of
\* each class and runs neither script.
InitDesignVariables ==
    /\ script = "none"
    /\ inFile = <<>>
    /\ pc = [r \in Ranks |-> "done"]
    /\ DVdict = [r \in Ranks |-> <<>>]
    /\ Constructed
    /\ shapeVar \in ShapeVariables
    /\ thickVar \in ThicknessVariables
    /\ shellAccess = NoAccess

\* variable.value = new_value (the setter of ShapeVariable)
SetShapeValue(new_value) ==
    /\ shapeVar # NoObject
    /\ shapeVar' = [shapeVar EXCEPT !.value = new_value]
    /\ UNCHANGED <<script, inFile, pc, trace, fault, DVdict, bcastQ,
                   collectives, gathers, caps, toolLog, f2f, functions,
                   structGrad, shapeGrad, mesh, sensFile, outFile,
                   optCtl, dirs, dvRef, files, thickVar, shellAccess>>

\* variable.value = new_value (the setter of ThicknessVariable)
SetThicknessValue(new_value) ==
    /\ thickVar # NoObject
    /\ thickVar' = [thickVar EXCEPT !.value = new_value]
    /\ UNCHANGED <<script, inFile, pc, trace, fault, DVdict, bcastQ,
                   collectives, gathers, caps, toolLog, f2f, functions,
                   structGrad, shapeGrad, mesh, sensFile, outFile,
                   optCtl, dirs, dvRef, files, shapeVar, shellAccess>>

\* an access of variable.shell_property
AccessShellProperty ==
    /\ thickVar # NoObject
    /\ shellAccess' = shell_property(thickVar)
    /\ UNCHANGED <<script, inFile, pc, trace, fault, DVdict, bcastQ,
                   collectives, gathers, caps, toolLog, f2f, functions,
                   structGrad, shapeGrad, mesh, sensFile, outFile,
                   optCtl, dirs, dvRef, files, shapeVar, thickVar>>

NextDesignVariables ==
    \/ \E new_value \in VariableValues :
          \/ SetShapeValue(new_value)
          \/ SetThicknessValue(new_value)
    \/ AccessShellProperty

DesignVariableSpec == InitDesignVariables /\ [][NextDesignVariables]_vars

\* ------------------------------------------ updateDesign on any DVdict
\* The class of optimization.py takes DVdict as an argument of its
\* constructor; its comment documents three types of record.
DocumentedTypes == {"thick", "shape", "aero"}

MaxRecords == 3

TypedRecord(i, dvType) ==
    TempDict(DvName(i), dvType,
             IF dvType = "thick" THEN GroupOfLine(i) ELSE "", 0)

\* the DVdict arguments of up to MaxRecords records for which the design
\* points of the optimizer have a value for every thickness and shape record
ArgDVdicts ==
    { d \in UNION { [1 .. n -> { TypedRecord(i, t) :
                                    i \in 1 .. MaxRecords, t \in DocumentedTypes }] :
                      n \in 1 .. MaxRecords } :
        /\ \A i \in DOMAIN d : d[i].name = DvName(i)
        /\ NShape(d) <= NShapeDV
        /\ Len(SelectSeq(d, LAMBDA DV : DV.type = "thick")) <= Len(OptThickNames) }

\* the object is constructed on some DVdict, the optimizer is about to make
\* its first call
InitAnyDVdict ==
    /\ script = "optimization"
    /\ inFile = <<>>
    /\ pc = [r \in Ranks |-> "opt_call"]
    /\ \E d \in ArgDVdicts : DVdict = [r \in Ranks |-> d]
    /\ Constructed
    /\ shapeVar = NoObject
    /\ thickVar = NoObject
    /\ shellAccess = NoAccess

\* objCon up to the end of updateDesign
NextToUpdateDesign ==
    \E r \in Ranks :
        \/ OptimizerCall(r)
        \/ SetupIteration(r)
        \/ CommBarrier(r)
        \/ BarrierPass(r)
        \/ BcastIterationPath(r)
        \/ InitializeAIMs(r)
        \/ UpdateDesign(r)

UpdateDesignSpec == InitAnyDVdict /\ [][NextToUpdateDesign]_vars

\* ================================================================== claims
IsPrefix(s, t) == Len(s) <= Len(t) /\ \A i \in 1 .. Len(s) : s[i] = t[i]

\* the steps of one run of runF2F.py as the specification lists them
FullPipeline ==
    <<"readInput", "initializeAIMs", "updateDesign", "buildStructureMesh",
      "buildFluidMesh", "initF2F", "solve_forward", "solve_adjoint",
      "computeShapeDerivatives", "writeOutput">>

\* the same without the two calls that are made on rank 0 only
RankPipeline(r) ==
    IF r = Root THEN FullPipeline
    ELSE SelectSeq(FullPipeline,
                   LAMBDA s : s \notin {"initializeAIMs", "computeShapeDerivatives"})

\* C1 (as amended): in a run of runF2F.py the steps rank 0 has started are
\* always the first steps of the full pipeline, in its order; the steps any
\* other rank has started are the first steps of the same pipeline without
\* initializeAIMs and computeShapeDerivatives, which only rank 0 calls.
C1_PipelinePerRank ==
    script = "runF2F" => \A r \in Ranks : IsPrefix(trace[r], RankPipeline(r))

\* rank 0 and another rank have both gone through their whole pipeline
C1_BothPipelinesRun ==
    /\ script = "runF2F"
    /\ trace[Root] = FullPipeline
    /\ \E r \in Ranks \ {Root} : trace[r] = RankPipeline(r)

\* C1 as stated: on every rank the steps started are the first steps of the
\* full pipeline, none skipped.
C1_FullPipelineOnEveryRank ==
    script = "runF2F" => \A r \in Ranks : IsPrefix(trace[r], FullPipeline)

\* C2: every operation on the geometry/mesh tools (creating problems and
\* AIMs, setting AIM inputs, preAnalysis/postAnalysis, copying mesh files,
\* writing .sens files) is made by rank 0.
C2_OnlyRootDrivesTools == \A op \in toolLog : op[1] = Root

\* rank 0 has driven the tools through the adjoint while another rank has
\* run the forward and adjoint solves with it
C2_ToolsDrivenWithOtherRanks ==
    /\ <<Root, "fun3dAim.postAnalysis">> \in toolLog
    /\ <<Root, "aim.input">> \in toolLog
    /\ \E r \in Ranks \ {Root} : "solve_adjoint" \in Range(trace[r])

\* C3 as stated: when every rank of runF2F.py has returned from its last
\* writeOutput, funtofem.out holds what rank 0 wrote, header included.
C3_OutputSurvivesOtherRanks ==
    (script = "runF2F" /\ \A r \in Ranks : pc[r] = "done")
    => /\ outFile # <<>>
       /\ outFile = OutputOf(DVdict[Root], functions[Root], shapeGrad[Root].m,
                             structGrad[Root]).lines

\* rank 0 has left the write of writeOutput, by return or by exception
RootHasWritten ==
    \/ pc[Root] \in {"script_writeOutput", "done"}
    \/ pc[Root] = "raised" /\ fault[Root].step \in WriteSteps

\* C4 as stated: what rank 0 leaves in funtofem.out is the header and, for
\* every function k, its name and value, the row k of shapeGrad and the
\* row k of structGrad.
C4_RecordCarriesOwnRows ==
    (script = "runF2F" /\ RootHasWritten /\ outFile # <<>>)
    => LET nshape == NShape(DVdict[Root])
           nstruct == Len(SelectSeq(DVdict[Root], LAMBDA DV : DV.type = "struct"))
           nfunc == Len(functions[Root])
       IN /\ Len(outFile) = 1 + 3 * nfunc
          /\ \A k \in 0 .. nfunc - 1 :
               /\ outFile[3 * k + 2] =
                    OutLine("func", FunctionNames[k + 1],
                            <<Re(functions[Root][k + 1])>>, TRUE)
               /\ outFile[3 * k + 3] =
                    OutLine("grad", "shape",
                            [j \in 1 .. nshape |-> shapeGrad[Root].m[k + 1][j]], TRUE)
               /\ outFile[3 * k + 4] =
                    OutLine("grad", "struct",
                            [j \in 1 .. nstruct |-> structGrad[Root][k + 1][j]], TRUE)

\* C5 as stated: the loop that fills structGrad never fails, and after it
\* every row of structGrad has one component per design variable that is
\* not a shape variable, the k-th being the real part of f2fgrads[f][k].
C5_OneComponentPerVariable ==
    \A r \in Ranks :
      /\ fault[r].step # "structGrad"
      /\ pc[r] = "collect_aero" =>
           LET nonShape == SelectSeq(DVdict[r], LAMBDA DV : DV.type # "shape")
               f2fgrads == ModelGradients(f2f[r].gen, Len(f2f[r].variables))
           IN \A f \in 1 .. Len(functions[r]) :
                /\ Len(structGrad[r][f]) = Len(nonShape)
                /\ \A k \in 1 .. Len(nonShape) :
                     structGrad[r][f][k] = Re(f2fgrads[f][k])

\* rank 0 has just left computeShapeDerivatives
RootHasShapeGrad == pc[Root] \in {"commBarrier_shape", "bcast_shapeGrad"}

\* C6: when rank 0 has left computeShapeDerivatives, shapeGrad has one row
\* per function and one column per shape variable, and the entry of
\* function f and the j-th shape variable is the derivative the structural
\* AIM reports for it plus the derivative the fluid AIM reports for it, and
\* nothing else: nothing of an earlier call is left in it.
C6_ShapeGradIsSumOfAimDerivs ==
    RootHasShapeGrad =>
      LET names == NamesOfTypes(DVdict[Root], {"shape"})
          m == shapeGrad[Root].m
      IN /\ shapeGrad[Root].set
         /\ Len(m) = Len(functions[Root])
         /\ \A f \in 1 .. Len(m) :
              /\ Len(m[f]) = Len(names)
              /\ \A j \in 1 .. Len(names) :
                   m[f][j] = caps.tacsDynout[FuncKey(f - 1)][names[j]]
                             + caps.fun3dDynout[FuncKey(f - 1)][names[j]]

\* the second gradient call of an optimization has computed its shapeGrad,
\* for a DVdict that holds shape and thickness variables
C6_SecondCallComputed ==
    /\ script = "optimization"
    /\ RootHasShapeGrad
    /\ iteration[Root] = 2
    /\ NShape(DVdict[Root]) >= 2
    /\ Len(DVdict[Root]) > NShape(DVdict[Root])

RecordFields == {"name", "type", "capsGroup", "value"}

\* the lines of funtofem.in that readInput does not skip
DataLines == SelectSeq(inFile, LAMBDA line : CharLen(line) > 1)

\* C7 (as amended): every record of DVdict has exactly the entries name,
\* type, capsGroup and value, and no bounds; value is a number; a record of
\* the optimization script has type "shape" or "thick"; the i-th record read
\* from funtofem.in has the first field of the i-th data line as its name
\* and the second as its type, whatever that field is.
C7_RecordEntries ==
    \A r \in Ranks : \A i \in DOMAIN DVdict[r] :
      LET DV == DVdict[r][i] IN
      /\ DOMAIN DV = RecordFields
      /\ DV.value \in Int
      /\ script = "optimization" => DV.type \in {"shape", "thick"}
      /\ script = "runF2F" =>
           /\ i <= Len(DataLines)
           /\ DV.name = Join(Split(DataLines[i])[1])
           /\ DV.type = Join(Split(DataLines[i])[2])

\* a rank other than 0 holds a record whose type is neither shape nor a
\* thickness type, next to records that are
C7_OtherKindHeld ==
    \E r \in Ranks \ {Root} : \E i, j \in DOMAIN DVdict[r] :
      /\ DVdict[r][i].type \notin {"shape", "struct", "thick"}
      /\ DVdict[r][j].type = "struct"

\* C7 as stated: every record has a name, a kind that is shape or
\* structural thickness, a group, a value, and bounds besides.
C7_RecordHasBounds ==
    \A r \in Ranks : \A i \in DOMAIN DVdict[r] :
      LET DV == DVdict[r][i] IN
      /\ RecordFields \subseteq DOMAIN DV
      /\ DV.type \in {"shape", "struct", "thick"}
      /\ \E entry \in DOMAIN DV : entry \notin RecordFields

\* the values of the records of one type, in list order
ValuesOfType(dvs, kind) ==
    LET picked == SelectSeq(dvs, LAMBDA DV : DV.type = kind)
    IN [i \in 1 .. Len(picked) |-> picked[i].value]

\* how many of the first n calls of the optimizer were calls of fn
CallsOf(fn, n) == Cardinality({i \in 1 .. n : calls[i].fn = fn})

\* C8: when forwardAnalysis(x) has returned on a rank of optimization.py,
\* the rank has a model built in this call whose structural variables are
\* x["struct"], the values of its thickness records are x["struct"] and
\* those of its shape records x["shape"]; on rank 0 the CAPS session was
\* created in this call and its Design_Variable, Design_Variable_Relation
\* and Property entries and its design parameters carry the values of x.
C8_StateRebuiltFromX ==
    \A r \in Ranks :
      (script = "optimization" /\ pc[r] = "objCon_return") =>
        LET x == inCall[r].x IN
        /\ f2f[r].built
        /\ f2f[r].gen = CallsOf("objCon", callIdx[r])
        /\ f2f[r].variables = x.struct
        /\ ValuesOfType(DVdict[r], "thick") = x.struct
        /\ ValuesOfType(DVdict[r], "shape") = x.shape
        /\ IsRoot(r) =>
             /\ caps.gen = CallsOf("objCon", callIdx[r])
             /\ \A i \in DOMAIN DVdict[r] :
                  LET DV == DVdict[r][i] IN
                  IF DV.type = "thick"
                    THEN /\ caps.Design_Variable[DV.name]
                              = makeThicknessDV(DV.capsGroup, DV.value)
                         /\ caps.Design_Variable_Relation[DV.name]
                              = makeThicknessDVR(DV.name)
                         /\ caps.Property[DV.capsGroup].membraneThickness = DV.value
                    ELSE /\ caps.structDespmtr[DV.name] = DV.value
                         /\ caps.fluidDespmtr[DV.name] = DV.value

\* rank 0 has returned from a forwardAnalysis whose x differs from that of
\* the first call
C8_SecondDesignEvaluated ==
    /\ script = "optimization"
    /\ pc[Root] = "objCon_return"
    /\ callIdx[Root] >= 2
    /\ calls[1].x # inCall[Root].x

\* the steps of forwardAnalysis and adjointAnalysis of optimization.py that
\* come after the first part of updateDesign
AfterUpdateSteps ==
    {"buildStructureMesh", "buildFluidMesh", "initF2F_model", "solve_forward",
     "solve_adjoint", "structGrad", "collect_aero", "collect_struct",
     "tacsAim_postAnalysis", "fun3dAim_postAnalysis"}

\* what a rank that an exception has ended is left with
LeftAsItWas(r) ==
    /\ iteration[r] = 1 + CallsOf("objGrad", callIdx[r] - 1)
    /\ (script = "optimization" /\ fault[r].step \in AfterUpdateSteps) =>
         /\ ValuesOfType(DVdict[r], "thick") = inCall[r].x.struct
         /\ ValuesOfType(DVdict[r], "shape") = inCall[r].x.shape

\* C9: objCon and objGrad never return fail = True; a rank on which a call
\* has raised is ended by the exception, for good: it makes no further
\* step, so nothing is tried again, and its design variables and iteration
\* counter stay what the failed call had made them (the values of the x of
\* that call, the iteration not counted), not what they were before it.
C9_NoRecoveryPath ==
    /\ [](\A r \in Ranks :
            /\ ret[r].fail = FALSE
            /\ fault[r] # NoFault => (pc[r] = "raised" /\ LeftAsItWas(r)))
    /\ [][\A r \in Ranks :
            pc[r] = "raised" =>
              /\ pc'[r] = "raised"
              /\ fault'[r] = fault[r]
              /\ DVdict'[r] = DVdict[r]
              /\ iteration'[r] = iteration[r]
              /\ ret'[r] = ret[r]]_vars

\* a tool call has raised on rank 0 in the second call of the optimizer,
\* after objCon had returned once and updateDesign had taken the new x
C9_ToolRaisedInSecondCall ==
    /\ script = "optimization"
    /\ pc[Root] = "raised"
    /\ fault[Root] = [step |-> "buildStructureMesh", exception |-> "ToolError"]
    /\ callIdx[Root] = 2
    /\ ret[Root] = [fn |-> "objCon", fail |-> FALSE]
    /\ inCall[Root].x # calls[1].x

\* The layout of a .sens file: the function count, then for every function
\* its key, its value, the node count and one line per node with the id
\* (shifted) and the three components of the node's sensitivity.
HasLayout(lines, funcs, ids, sens, shift) ==
    LET nfunc == Len(funcs)
        nnodes == Len(ids)
        block == 3 + nnodes
    IN /\ Len(lines) = 1 + nfunc * block
       /\ lines[1] = SensLine("nfunc", "", <<nfunc>>)
       /\ \A f \in 0 .. nfunc - 1 :
            LET at == 1 + f * block IN
            /\ lines[at + 1] = SensLine("key", "func#" \o ToString(f), <<>>)
            /\ lines[at + 2] = SensLine("value", "", <<funcs[f + 1][1]>>)
            /\ lines[at + 3] = SensLine("nnodes", "", <<nnodes>>)
            /\ \A c \in 0 .. nnodes - 1 :
                 lines[at + 4 + c] =
                   SensLine("node", "",
                            <<ids[c + 1] + shift,
                              sens[3 * c + 1][f + 1][1],
                              sens[3 * c + 2][f + 1][1],
                              sens[3 * c + 3][f + 1][1]>>)

\* C10: the file tacsAim.postAnalysis finds is closed and has the layout
\* with the structural node ids shifted by one; the file
\* fun3dAim.postAnalysis finds is closed and has the layout with the
\* aerodynamic node ids as they are.
C10_SensFileLayout ==
    /\ pc[Root] = "applyAeroMeshSens" =>
         /\ sensFile["tacs"].posted
         /\ ~sensFile["tacs"].seenOpen
         /\ HasLayout(sensFile["tacs"].seen, functions[Root], mesh.structIds,
                      mesh.struct_mesh_sens, 1)
    /\ RootHasShapeGrad =>
         /\ sensFile["fun3d"].posted
         /\ ~sensFile["fun3d"].seenOpen
         /\ HasLayout(sensFile["fun3d"].seen, functions[Root], mesh.aeroIds,
                      mesh.aero_mesh_sens, 0)

\* both postAnalysis calls have been made for meshes of more than one node
C10_BothFilesPosted ==
    /\ RootHasShapeGrad
    /\ sensFile["tacs"].posted
    /\ sensFile["fun3d"].posted
    /\ Len(mesh.structIds) >= 2
    /\ Len(mesh.aeroIds) >= 2

\* readInput has returned on rank r
ReadInputReturned(r) ==
    "readInput" \in Range(trace[r]) /\ fault[r].step # "readInput"

\* C11: when readInput has returned on every rank, every rank's DVdict is
\* the list rank 0 parsed from funtofem.in, which has one record for every
\* line of more than one character (a line that is not just its newline),
\* in the order of the file; no rank but rank 0 has opened the file.
C11_SameDVdictOnEveryRank ==
    /\ inputOpens \subseteq {Root}
    /\ (script = "runF2F" /\ \A r \in Ranks : ReadInputReturned(r)) =>
         \A r \in Ranks :
           /\ DVdict[r] = ParseInput(inFile).DVdict
           /\ Len(DVdict[r]) = Len(DataLines)
           /\ \A i \in DOMAIN DVdict[r] :
                DVdict[r][i].name = Join(Split(DataLines[i])[1])

\* every rank has returned from readInput with two or more records, read
\* from a file that has an empty line as well
C11_BroadcastReceived ==
    /\ script = "runF2F"
    /\ \A r \in Ranks : ReadInputReturned(r) /\ Len(DVdict[r]) >= 2
    /\ Len(DataLines) < Len(inFile)
    /\ inputOpens = {Root}

\* C12 as stated: in a run in which no external call raises, a rank that
\* starts adjointAnalysis returns from it, and a rank that starts
\* forwardAnalysis of optimization.py returns from it.
C12_EveryRankReturns ==
    \A r \in Ranks :
      /\ (pc[r] = "solve_adjoint") ~> (pc[r] \in {"writeOutput", "objGrad_return"})
      /\ (pc[r] = "setupIteration") ~> (pc[r] = "objCon_return")

\* the statements of a rank between the return of adjointAnalysis and the
\* last use of self.shapeGrad (writeOutput, objGrad)
ShapeGradUses == OpenSteps \cup WriteSteps \cup {"objGrad_return"}

\* C13: when adjointAnalysis has returned on a rank, its shapeGrad is an
\* array, not the None placeholder, and it is the array rank 0 holds from
\* its computeShapeDerivatives.
C13_ShapeGradSameOnEveryRank ==
    \A r \in Ranks :
      pc[r] \in ShapeGradUses =>
        /\ shapeGrad[r].set
        /\ shapeGrad[r] = shapeGrad[Root]

C13_OtherRankHoldsRootArray ==
    \E r \in Ranks \ {Root} :
      /\ pc[r] \in ShapeGradUses
      /\ shapeGrad[r].set
      /\ Len(shapeGrad[r].m) >= 1
      /\ Len(shapeGrad[r].m[1]) >= 2
      /\ \E j \in DOMAIN shapeGrad[r].m[1] : shapeGrad[r].m[1][j] # 0

\* rank 0 has made at least one updateDesign call and is not inside the
\* next one (between initializeAIMs and the end of updateDesign)
RootUpdatedDesign ==
    /\ caps.gen > 0
    /\ pc[Root] # "updateDesign"
    /\ fault[Root].step \notin {"initializeAIMs", "updateDesign"}

ThicknessRecords ==
    {i \in DOMAIN DVdict[Root] : DVdict[Root][i].type = ThickType(script)}

ShapeRecords == {i \in DOMAIN DVdict[Root] : DVdict[Root][i].type = "shape"}

\* what updateDesign leaves in tacsAim for thickness record i, the shell
\* property of its group aside
ThicknessEntriesFollow(i) ==
    LET d == DVdict[Root][i] IN
      /\ caps.Design_Variable[d.name].initialValue = d.value
      /\ caps.Design_Variable[d.name].groupName = d.capsGroup
      /\ caps.Design_Variable_Relation[d.name].groupName = d.name

DespmtrFollows(i) ==
    LET d == DVdict[Root][i] IN
      /\ caps.structDespmtr[d.name] = d.value
      /\ caps.fluidDespmtr[d.name] = d.value

\* C14 as stated: after updateDesign on rank 0 the AIM entries of every
\* thickness variable carry its value and group, the shell property of its
\* group has its value as membraneThickness, and the despmtr of every shape
\* variable has its value in both CAPS problems.
C14_AimInputsFollowEveryVariable ==
    RootUpdatedDesign =>
      /\ \A i \in ThicknessRecords :
           /\ ThicknessEntriesFollow(i)
           /\ caps.Property[DVdict[Root][i].capsGroup].membraneThickness
                = DVdict[Root][i].value
      /\ \A i \in ShapeRecords : DespmtrFollows(i)

\* the last thickness record of the group of record i
LastOfGroup(i) ==
    \A k \in ThicknessRecords :
      DVdict[Root][k].capsGroup = DVdict[Root][i].capsGroup => k <= i

\* C14, amended: the same, but the membraneThickness of a group is the
\* value of the last thickness variable of that group in DVdict.
C14_PropertyFollowsLastOfGroup ==
    RootUpdatedDesign =>
      /\ \A i \in ThicknessRecords :
           /\ ThicknessEntriesFollow(i)
           /\ LastOfGroup(i) =>
                caps.Property[DVdict[Root][i].capsGroup].membraneThickness
                  = DVdict[Root][i].value
      /\ \A i \in ShapeRecords : DespmtrFollows(i)

C14_TwoVariablesOneGroup ==
    /\ RootUpdatedDesign
    /\ \E i, k \in ThicknessRecords :
         /\ i < k
         /\ DVdict[Root][i].capsGroup = DVdict[Root][k].capsGroup
         /\ DVdict[Root][i].value # DVdict[Root][k].value
    /\ ShapeRecords # {}

\* the number of records of type dvType among the first i of dvs
CountOfType(dvs, dvType, i) ==
    Cardinality({k \in 1 .. i : dvs[k].type = dvType})

\* new is old with the values of x in its thickness and shape records and
\* nothing else changed
OnlyValuesFromX(old, new, x) ==
    /\ Len(new) = Len(old)
    /\ \A i \in DOMAIN old :
         /\ new[i].name = old[i].name
         /\ new[i].type = old[i].type
         /\ new[i].capsGroup = old[i].capsGroup
         /\ new[i].value =
              IF old[i].type = "thick"
                THEN x.struct[CountOfType(old, "thick", i)]
              ELSE IF old[i].type = "shape"
                THEN x.shape[CountOfType(old, "shape", i)]
              ELSE old[i].value

\* C15 as stated: whatever the documented types of the records of DVdict,
\* a call of updateDesign(x) changes nothing but the values of the thickness
\* and shape records, the i-th thickness record to x["struct"][i] and the
\* j-th shape record to x["shape"][j].
C15_OnlyValuesChange ==
    [][\A r \in Ranks :
         (pc[r] = "updateDesign" /\ pc'[r] # "updateDesign") =>
           OnlyValuesFromX(DVdict[r], DVdict'[r], inCall[r].x)]_vars

\* the numbers among the fields of a line
NumbersOf(line) ==
    {Float(Split(line)[k]) : k \in {j \in DOMAIN Split(line) : IsNumber(Split(line)[j])}}

\* the fields of a line, as written
FieldsOf(line) == {Join(Split(line)[k]) : k \in DOMAIN Split(line)}

\* C16 as stated: the i-th record of DVdict has its value and capsGroup from
\* the i-th data line of funtofem.in, the line of its name: a shape record
\* has capsGroup '' and the third field as value, a struct record the third
\* field as capsGroup and the fourth as value, and no record has a value or
\* a capsGroup that its own line does not give.
C16_RecordTakenFromItsLine ==
    script = "runF2F" =>
      \A r \in Ranks : \A i \in DOMAIN DVdict[r] :
        LET DV == DVdict[r][i]
            parts == Split(DataLines[i])
        IN /\ DV.type = "shape" =>
                DV.capsGroup = "" /\ DV.value = Float(parts[3])
           /\ DV.type = "struct" =>
                DV.capsGroup = Join(parts[3]) /\ DV.value = Float(parts[4])
           /\ DV.value \in NumbersOf(DataLines[i])
           /\ DV.capsGroup \in {""} \cup FieldsOf(DataLines[i])

\* the files of steady/Flow that buildFluidMesh is to write
FluidMeshFiles ==
    {"pointwise" \o Join(ext) : ext \in Range(UgridExtensions)}
    \cup {"tetgen.lb8.ugrid", "tetgen.mapbc"}

\* C17 as stated: when buildFluidMesh has returned on rank 0, steady/Flow
\* holds, for pointwise, a copy of caps.GeomToMesh<ext> as pointwise<ext> for
\* each of the two extensions and, for tetgen, copies of fun3d_CAPS.lb8.ugrid
\* and fun3d_CAPS.mapbc as tetgen.lb8.ugrid and tetgen.mapbc; and no such
\* file is there before fun3dAim.preAnalysis has run.
C17_UgridFilesCopied ==
    /\ pc[Root] = "initF2F" =>
         IF MeshStyle(script) = "pointwise"
           THEN \A ext \in Range(UgridExtensions) :
                  [dest |-> "pointwise" \o Join(ext),
                   src |-> "pointwiseAim/caps.GeomToMesh" \o Join(ext)] \in flowDir
           ELSE /\ [dest |-> "tetgen.lb8.ugrid",
                    src |-> "fun3dAim/Flow/fun3d_CAPS.lb8.ugrid"] \in flowDir
                /\ [dest |-> "tetgen.mapbc",
                    src |-> "fun3dAim/Flow/fun3d_CAPS.mapbc"] \in flowDir
    /\ (\E f \in flowDir : f.dest \in FluidMeshFiles) =>
         <<Root, "fun3dAim.preAnalysis">> \in toolLog

ThicknessKeys ==
    {"groupName", "initialValue", "lowerBound", "upperBound", "maxDelta"}

\* C18: once initializeAIMs has run structureMeshSettings and fun3dSettings,
\* the keys of tacsAim's Design_Variable are the names of the shape and
\* thickness records (an empty dictionary for a shape record, a thickness
\* dictionary for a thickness record), the keys of Design_Variable_Relation
\* are the names of the thickness records, and fun3dAim's Design_Variable
\* has the names of the shape records, each with an empty dictionary; the
\* DV_dictionary of a ShapeVariable is empty.
C18_AimDesignVariableKeys ==
    /\ caps.gen > 0 =>
         LET shapes == Range(NamesOfTypes(DVdict[Root], {"shape"}))
             thicks == Range(NamesOfTypes(DVdict[Root], {ThickType(script)}))
         IN /\ DOMAIN caps.Design_Variable = shapes \cup thicks
            /\ \A n \in shapes : caps.Design_Variable[n] = EmptyDict
            /\ \A n \in thicks : DOMAIN caps.Design_Variable[n] = ThicknessKeys
            /\ DOMAIN caps.Design_Variable_Relation = thicks
            /\ DOMAIN caps.fun3dDesign_Variable = shapes
            /\ \A n \in shapes : caps.fun3dDesign_Variable[n] = EmptyDict
    /\ \A variable \in ShapeVariables \cup
                       {ShapeVariable(DvName(i), v) :
                          i \in 1 .. MaxLines, v \in VariableValues} :
         ShapeDV_dictionary(variable) = EmptyDict

C18_BothKindsHandedToAims ==
    /\ caps.gen > 0
    /\ script = "runF2F"
    /\ Cardinality(DOMAIN caps.fun3dDesign_Variable) >= 1
    /\ Cardinality(DOMAIN caps.Design_Variable_Relation) >= 2
    /\ Len(DVdict[Root]) > Cardinality(DOMAIN caps.Design_Variable)

\* C19: whatever has been assigned to the value of a ThicknessVariable, its
\* DV_dictionary is computed from the value it has now: initialValue is the
\* value, lowerBound 0.5, upperBound 1.5 and maxDelta 0.1 times the value,
\* so that lowerBound < initialValue < upperBound for a value above 0;
\* groupName is the caps group; makeThicknessDV builds the same dictionary;
\* an assignment changes neither name nor caps_group nor groupName.
C19_DictionaryFollowsValue ==
    /\ [](LET d == DV_dictionary(thickVar) IN
            /\ d.initialValue = thickVar.value
            /\ 10 * d.lowerBound = 5 * thickVar.value
            /\ 10 * d.upperBound = 15 * thickVar.value
            /\ 10 * d.maxDelta = thickVar.value
            /\ thickVar.value > 0 =>
                 d.lowerBound < d.initialValue /\ d.initialValue < d.upperBound
            /\ d.groupName = thickVar.caps_group
            /\ d = makeThicknessDV(thickVar.caps_group, thickVar.value))
    /\ [][/\ thickVar'.name = thickVar.name
          /\ thickVar'.caps_group = thickVar.caps_group
          /\ DV_dictionary(thickVar)'.groupName = DV_dictionary(thickVar).groupName]_vars

\* a value no constructor call of the model gives: it has been assigned
C19_ValueAssigned ==
    /\ thickVar # NoObject
    /\ thickVar.value = 10 * MaxValue
    /\ DV_dictionary(thickVar).upperBound = 15 * MaxValue
    /\ shapeVar.value <= 0

\* C20: the DV_dictionary of a ThicknessVariable is the dictionary
\* makeThicknessDV builds from its caps group and value, and its
\* DVR_dictionary is the one makeThicknessDVR builds from its name
\* (makeThicknessDV and makeThicknessDVR are the same in both scripts).
C20_SameAsScriptDictionaries ==
    thickVar # NoObject =>
      /\ DV_dictionary(thickVar)
           = makeThicknessDV(thickVar.caps_group, thickVar.value)
      /\ DVR_dictionary(thickVar) = makeThicknessDVR(thickVar.name)

C20_VariableWithoutMaterial ==
    /\ thickVar \in ThicknessVariables
    /\ ~has_material(thickVar)
    /\ thickVar.name = "thick2"
    /\ thickVar.caps_group = "OML"
    /\ DVR_dictionary(thickVar).groupName = "thick2"

\* C21: an access of shell_property of a ThicknessVariable gives a shell
\* property exactly when has_material is true, and then one with the caps
\* group, the material, the value the variable has at the access as
\* membrane thickness and the bending boost; when the material is None the
\* access ends in the AssertionError and gives no property.
C21_PropertyOnlyWithMaterial ==
    [][shellAccess' # shellAccess =>
         /\ shellAccess'.raised = ~has_material(thickVar)
         /\ has_material(thickVar) =>
              /\ shellAccess'.property.caps_group = thickVar.caps_group
              /\ shellAccess'.property.material = thickVar.material
              /\ shellAccess'.property.membrane_thickness = thickVar.value
              /\ shellAccess'.property.bending_inertia = thickVar.bending_boost
         /\ ~has_material(thickVar) =>
              /\ shellAccess'.exception = "AssertionError"
              /\ shellAccess'.property = <<>>]_vars

\* the access failed for a variable without material whose value had been
\* assigned
C21_AssertionFailed ==
    /\ thickVar # NoObject
    /\ ~has_material(thickVar)
    /\ thickVar.value = 10 * MaxValue
    /\ shellAccess.raised
    /\ shellAccess.exception = "AssertionError"

\* C22: on every rank the current directory is parentDir when objCon is
\* about to return and when objGrad is about to return, and when
\* runPointwise has returned (runF2F.py, whose current directory is the
\* parent directory until then) it is what it was at the call.
C22_DirectoryRestored ==
    \A r \in Ranks :
      /\ pc[r] \in {"objCon_return", "objGrad_return"} => cwd[r] = "parentDir"
      /\ (script = "runF2F" /\ pc[r] = "copyFluidMesh") => cwd[r] = "parentDir"

\* every rank has been in the iteration directory during adjointAnalysis and
\* is about to return from objGrad
C22_BackFromIterationDir ==
    /\ script = "optimization"
    /\ \A r \in Ranks :
         /\ pc[r] = "objGrad_return"
         /\ iterationPath[r] = IterationDir(1)
         /\ cwd[r] = "parentDir"

====
